---- MODULE Spec2Model ----
(***************************************************************************)
(* A model of the NM-Kanban API server (src/cmd/main.go): the durable      *)
(* store, the request handlers, the per-column lock registry and the       *)
(* WebSocket connection registry with its broadcast.                       *)
(*                                                                         *)
(* Every request handler is a process.  A step of a process ends where the *)
(* handler reads or writes something shared: the committed store, a lock,  *)
(* the connection registry or a socket.  Statements that only add to the   *)
(* handler's own open transaction are part of the step that precedes them: *)
(* nothing another handler does can tell them apart.                       *)
(*                                                                         *)
(* The store is PostgreSQL behind pgx.  A transaction (db.Begin .. Commit) *)
(* keeps its writes in a buffer (tx) that becomes visible to others only   *)
(* at Commit, as a whole; statements inside the transaction read the       *)
(* committed store plus the transaction's own writes (read committed).     *)
(* A statement that fails inside a transaction leaves the transaction      *)
(* aborted: every later statement of it fails and Commit returns an error. *)
(* Statements sent on app.db directly are committed on their own.          *)
(*                                                                         *)
(* A storage failure can strike db.Begin, any statement of a transaction,  *)
(* any write sent on app.db and tx.Commit.  The plain SELECTs sent on      *)
(* app.db (getBoardIDFromColumn, checkBoardPermission, the check query of  *)
(* inviteUserToBoard) are taken to answer; the three SELECTs of            *)
(* checkBoardPermission read one state of the store.                       *)
(*                                                                         *)
(* app.clients is a Go map of maps that no mutex guards.  The model keeps  *)
(* one set of connections per board, and a broadcast keeps the entries it  *)
(* has still to visit: an entry deleted meanwhile is not visited, an entry *)
(* inserted meanwhile may or may not be.  Where two goroutines stand at    *)
(* the same map and one of them writes it, the runtime may also end the    *)
(* process (fatal).  client.WriteMessage has no deadline: it returns with  *)
(* success or with an error, or, while the peer does not read (stalled),   *)
(* it does not return.                                                     *)
(***************************************************************************)
EXTENDS Integers, Sequences, FiniteSets, TLC

\* ------------------------------------------------------------- bounds
NProcs == 2
MaxReqs == 2
NConns == 2

Procs == 1..NProcs
Conns == 1..NConns

\* auth.users: the accounts that exist; NoUser is a client without credentials
Users == {"u1", "u2", "u3"}
NoUser == "none"
\* assigned_to is free text: a user name, the empty string, or a name of nobody
NoName == ""

VARIABLES
    db,        \* the committed store: boards, columns, cards, memberships,
               \* invitations, notifications
    serial,    \* the store's id sequences (not transactional)
    req,       \* req[p]: the request process p is serving, with its locals
    nreq,      \* number of requests received so far
    commits,   \* ids of the requests whose transaction committed, in order
    locks,     \* app.colLocks.locks: column id -> lock object
    held,      \* lock object -> the process holding it (0: free)
    clients,   \* app.clients: board id -> set of connections
    conn,      \* conn[c]: connection c's handler (handleWebSocket) and socket
    sent,      \* sent[c]: the events written to connection c, in order
    bg         \* the goroutines spawned by reorderCards (go func)

vars == <<db, serial, req, nreq, commits, locks, held, clients, conn, sent, bg>>

\* ------------------------------------------------------------- store
Max(S) == CHOOSE x \in S : \A y \in S : y <= x

BoardRows(d, b) == {x \in d.boards : x.id = b}
ColumnRows(d, c) == {x \in d.columns : x.id = c}
CardRows(d, k) == {x \in d.cards : x.id = k}
CardsIn(d, c) == {x \in d.cards : x.col = c}
ColumnsOf(d, b) == {x \in d.columns : x.board = b}
MemberRows(d, b, u) == {m \in d.memberships : m.board = b /\ m.user = u}
InvRows(d, i) == {x \in d.invitations : x.id = i}

\* the WHERE clause without invitee_id = $3
InviteeRowsAnyUser(d, i, u) == InvRows(d, i)

\* line 1216: .. WHERE id = $2 AND invitee_id = $3
InviteeRows(d, i, u) == {x \in d.invitations : x.id = i /\ x.invitee = u}

\* an UPDATE that moves no column
shiftColumnsNone(cols, b, pos) == cols

\* line 418: UPDATE columns SET position = position - 1
\*           WHERE board_id = $1 AND position > $2
shiftColumns(cols, b, pos) ==
    {IF x.board = b /\ x.position > pos THEN [x EXCEPT !.position = @ - 1] ELSE x :
        x \in cols}
PendingRows(d, b, u) ==
    {x \in d.invitations : x.board = b /\ x.invitee = u /\ x.status = "pending"}

\* the insert without ON CONFLICT DO NOTHING
insertMembershipAlways(d, b, u) ==
    [d EXCEPT !.memberships =
        @ \cup {[board |-> b, user |-> u, n |-> Cardinality(MemberRows(d, b, u)) + 1]}]

\* the board of column c, 0 when there is no such column
getColumnBoard(d, c) ==
    IF ColumnRows(d, c) = {} THEN 0 ELSE (CHOOSE x \in ColumnRows(d, c) : TRUE).board

\* line 1225: INSERT INTO board_memberships .. ON CONFLICT DO NOTHING; n tells
\* the rows of one (board, user) pair apart
insertMembership(d, b, u) ==
    IF MemberRows(d, b, u) # {} THEN d
    ELSE [d EXCEPT !.memberships = @ \cup {[board |-> b, user |-> u, n |-> 1]}]

\* DELETE FROM boards WHERE id = $1 (line 445): the row of the board goes, and
\* with it the rows that refer to it (the storage layer's referential rules)
deleteCascade(d, b) ==
    [d EXCEPT !.boards = {x \in @ : x.id # b},
              !.columns = {x \in @ : x.board # b},
              !.cards = {x \in @ : getColumnBoard(d, x.col) # b},
              !.memberships = {x \in @ : x.board # b},
              !.invitations = {x \in @ : x.board # b}]

\* one write of a transaction (or of a single statement), applied to the store
ApplyOp(d, o) ==
    CASE o.k = "insCard" ->
           [d EXCEPT !.cards = @ \cup {o.row}]
      [] o.k = "updCard" ->
           [d EXCEPT !.cards =
               {IF x.id = o.id THEN [x EXCEPT !.assigned = o.assigned] ELSE x : x \in @}]
      [] o.k = "setPos" ->
           [d EXCEPT !.cards =
               {IF x.id = o.id THEN [x EXCEPT !.pos = o.pos, !.col = o.col] ELSE x : x \in @}]
      [] o.k = "delCard" ->
           [d EXCEPT !.cards = {x \in @ : x.id # o.id}]
      [] o.k = "delCol" ->
           [d EXCEPT !.columns = {x \in @ : x.id # o.id}]
      [] o.k = "shiftCols" ->
           [d EXCEPT !.columns = shiftColumns(@, o.board, o.position)]
      [] o.k = "insInv" ->
           [d EXCEPT !.invitations = @ \cup {o.row}]
      [] o.k = "updInv" ->
           [d EXCEPT !.invitations =
               {IF x \in InviteeRows(d, o.id, o.user)
                   THEN [x EXCEPT !.status = o.status] ELSE x : x \in @}]
      [] o.k = "insMem" -> insertMembership(d, o.board, o.user)
      [] o.k = "insCol" ->
           [d EXCEPT !.columns = @ \cup {o.row}]
      [] o.k = "insBoard" ->
           [d EXCEPT !.boards = @ \cup {o.row}]
      [] o.k = "delBoard" -> deleteCascade(d, o.id)
      [] o.k = "delMem" ->
           [d EXCEPT !.memberships = {m \in @ : ~(m.board = o.board /\ m.user = o.user)}]
      [] o.k = "insNotif" ->
           [d EXCEPT !.notifications = Append(@, o.row)]
      [] o.k = "markRead" ->
           [d EXCEPT !.notifications =
               [i \in DOMAIN @ |->
                   IF i = o.id /\ @[i].user = o.user THEN [@[i] EXCEPT !.read = TRUE] ELSE @[i]]]
      [] OTHER -> d

RECURSIVE ApplyAll(_, _)
ApplyAll(d, ops) ==
    IF ops = <<>> THEN d ELSE ApplyAll(ApplyOp(d, Head(ops)), Tail(ops))

\* what a statement of p's transaction reads
View(p) == ApplyAll(db, req[p].tx)

\* ------------------------------------------------------------- queries
getBoardIDFromColumn(d, c) ==
    IF ColumnRows(d, c) = {} THEN 0 ELSE (CHOOSE x \in ColumnRows(d, c) : TRUE).board

getBoardIDFromCard(d, k) ==
    IF CardRows(d, k) = {} THEN 0
    ELSE getBoardIDFromColumn(d, (CHOOSE x \in CardRows(d, k) : TRUE).col)

\* raw_user_meta_data->>'username' = $1 OR email = $1 : "" when nobody matches
getUserIDByUsername(name) == IF name \in Users THEN name ELSE NoUser

\* a check that does not read is_public
checkBoardPermissionPrivate(d, u, b) ==
    IF BoardRows(d, b) = {} THEN FALSE
    ELSE LET brd == CHOOSE x \in BoardRows(d, b) : TRUE IN
         IF brd.owner = u THEN TRUE
         ELSE Cardinality(MemberRows(d, b, u)) > 0

\* lines 929-965: is_public, then owner_id, then the count of membership rows
checkBoardPermission(d, u, b) ==
    IF BoardRows(d, b) = {} THEN FALSE
    ELSE LET brd == CHOOSE x \in BoardRows(d, b) : TRUE IN
         IF brd.isPublic THEN TRUE
         ELSE IF brd.owner = u THEN TRUE
         ELSE Cardinality(MemberRows(d, b, u)) > 0

\* ------------------------------------------------------------- requests
Idle ==
    [op |-> "idle", pc |-> "idle", id |-> 0, user |-> NoUser, board |-> 0,
     col |-> 0, card |-> 0, inv |-> 0, target |-> NoUser, accept |-> FALSE,
     order |-> <<>>, assigned |-> NoName, tx |-> <<>>, aborted |-> FALSE,
     loc |-> 0, old |-> NoName, lock |-> 0, todo |-> {}, resp |-> "", notif |-> 0,
     title |-> "", public |-> FALSE]

\* the handler returns: its deferred tx.Rollback discards an open transaction
Return(r, status) ==
    [r EXCEPT !.pc = "done", !.resp = status, !.tx = <<>>, !.aborted = FALSE,
              !.loc = 0, !.old = NoName, !.todo = {}]

Set(p, r) == req' = [req EXCEPT ![p] = r]

storeVars == <<db, serial>>
lockVars == <<locks, held>>
wsVars == <<clients, conn, sent>>

\* ------------------------------------------------------------- routes
\* setupRoutes and main: the handlers registered with Use, each with the path
\* prefix it is mounted on
Middleware ==
    {[prefix |-> <<>>, h |-> "logger"], [prefix |-> <<>>, h |-> "recover"],
     [prefix |-> <<>>, h |-> "cors"], [prefix |-> <<"api">>, h |-> "auth"]}

ApiPath == <<"api">>
WsPath == <<"ws", "board">>

IsPrefix(pre, path) ==
    Len(pre) <= Len(path) /\ SubSeq(path, 1, Len(pre)) = pre

\* authMiddleware, lines 213-248: a token resolves to a user id or is rejected
authMiddleware(cred) == cred \in Users

\* the request reaches the handler of path
Admitted(path, cred) ==
    \A m \in Middleware :
        (IsPrefix(m.prefix, path) /\ m.h = "auth") => authMiddleware(cred)

\* a request that passed authMiddleware reaches its handler; it is served by
\* the first process that is not serving one (the processes are interchangeable)
Free(p) == req[p].pc \in {"idle", "done"}

Receive(p, r) ==
    /\ Free(p)
    /\ \A q \in Procs : q < p => ~Free(q)
    /\ nreq < MaxReqs
    /\ Admitted(ApiPath, r.user)
    /\ nreq' = nreq + 1
    /\ Set(p, [r EXCEPT !.id = nreq + 1, !.pc = "start"])
    /\ UNCHANGED <<storeVars, commits, lockVars, wsVars, bg>>

\* ------------------------------------------------------------- broadcast
EventOf(op) ==
    CASE op = "createColumn" -> "COLUMN_CREATED"
      [] op = "createCard" -> "CARD_CREATED"
      [] op = "updateCard" -> "CARD_UPDATED"
      [] op = "deleteCard" -> "CARD_DELETED"
      [] OTHER -> "BOARD_STATE_UPDATED"

\* broadcast, line 277: the connections of the board at the start of the loop
Listeners(b) == IF b \in DOMAIN clients THEN clients[b] ELSE {}

\* the entries put into the board's map after the loop began, not yet produced:
\* a range over a map may or may not produce them
Late(b, id, todo) ==
    {c \in Listeners(b) \ todo : \A n \in DOMAIN sent[c] : sent[c][n].req # id}

\* client.WriteMessage sets no deadline: while the peer does not read, the
\* write does not return
Blocks(c, b) == c \in Listeners(b) /\ conn[c].open /\ conn[c].stalled

\* a failed write that closes the connection and leaves it in the map
WriteMessageKeep(c, b, ev, ok) ==
    IF ok /\ conn[c].open
    THEN /\ sent' = [sent EXCEPT ![c] = Append(@, ev)]
         /\ UNCHANGED <<clients, conn>>
    ELSE /\ conn' = [conn EXCEPT ![c].open = FALSE]
         /\ UNCHANGED <<clients, sent>>

\* broadcast, lines 280-283: one client.WriteMessage; a failed write closes
\* the connection and deletes it from the map the loop ranges over
WriteMessage(c, b, ev, ok) ==
    IF ok /\ conn[c].open
    THEN /\ sent' = [sent EXCEPT ![c] = Append(@, ev)]
         /\ UNCHANGED <<clients, conn>>
    ELSE /\ conn' = [conn EXCEPT ![c].open = FALSE]
         /\ clients' = IF b \in DOMAIN clients
                          THEN [clients EXCEPT ![b] = @ \ {c}] ELSE clients
         /\ UNCHANGED sent

\* the loop of broadcast inside a request handler; an entry deleted from the map
\* before the loop reaches it is not visited
\* the handler returns status once the loop has visited its last entry
Broadcast(p) ==
    LET r == req[p] IN
    /\ r.pc = "bcast"
    /\ \E c \in r.todo \cup Late(r.board, r.id, r.todo) :
          IF Blocks(c, r.board)
          THEN /\ Set(p, [r EXCEPT !.pc = "blocked"])
               /\ UNCHANGED wsVars
          ELSE /\ Set(p, IF r.todo \ {c} = {} THEN Return(r, r.resp)
                         ELSE [r EXCEPT !.todo = @ \ {c}])
               /\ IF c \in Listeners(r.board)
                     THEN \E ok \in BOOLEAN :
                             WriteMessage(c, r.board, [type |-> EventOf(r.op), req |-> r.id], ok)
                     ELSE UNCHANGED wsVars
    /\ UNCHANGED <<storeVars, nreq, commits, lockVars, bg>>

\* the handler calls app.broadcast(board, ..) and then returns status
ToBroadcast(r, b, status) ==
    IF Listeners(b) = {} THEN Return(r, status)
    ELSE [r EXCEPT !.pc = "bcast", !.board = b, !.todo = Listeners(b), !.resp = status,
                   !.tx = <<>>, !.aborted = FALSE, !.loc = 0, !.old = NoName]

\* ------------------------------------------------------------- transactions
\* db.Begin, and a statement whose error the handler checks: a storage error
\* makes the handler return 500
Outcome == BOOLEAN

\* a commit that takes effect on an aborted transaction
CommittedAborted(r, ok) == ok

\* tx.Commit takes effect unless the store fails or the transaction is aborted
Committed(r, ok) == ok /\ ~r.aborted

\* a commit whose last statement stays in the store when the commit fails
TxCommitKeepsLast(r, done) ==
    /\ db' = IF done THEN ApplyAll(db, r.tx)
             ELSE IF r.tx = <<>> THEN db ELSE ApplyOp(db, r.tx[Len(r.tx)])
    /\ commits' = IF done THEN Append(commits, r.id) ELSE commits

\* a commit whose first statement stays in the store when the commit fails
TxCommitPartial(r, done) ==
    /\ db' = IF done THEN ApplyAll(db, r.tx)
             ELSE IF r.tx = <<>> THEN db ELSE ApplyOp(db, Head(r.tx))
    /\ commits' = IF done THEN Append(commits, r.id) ELSE commits

TxCommit(r, done) ==
    /\ db' = IF done THEN ApplyAll(db, r.tx) ELSE db
    /\ commits' = IF done THEN Append(commits, r.id) ELSE commits

\* a statement executed on app.db outside a transaction
Exec(r, o, ok) ==
    /\ db' = IF ok THEN ApplyOp(db, o) ELSE db
    /\ commits' = IF ok THEN Append(commits, r.id) ELSE commits

\* a statement inside the transaction: buffered, or the transaction aborts
Stmt(r, o, ok) ==
    IF ok /\ ~r.aborted THEN [r EXCEPT !.tx = Append(@, o)] ELSE [r EXCEPT !.aborted = TRUE]

\* createNotification, lines 813-820
createNotification(r, n, ok) ==
    Stmt(r, [k |-> "insNotif", row |-> n], ok)

Notification(u, type, b, k, i) ==
    [user |-> u, type |-> type, board |-> b, card |-> k, inv |-> i, read |-> FALSE]

\* ------------------------------------------------------------- createCard
\* lines 846-848: MAX(position) scanned into a sql.NullInt64, then + 1;
\* MAX over no rows is NULL, which leaves Int64 at 0
createCardPosition(d, c) ==
    (IF CardsIn(d, c) = {} THEN 0 ELSE Max({x.pos : x \in CardsIn(d, c)})) + 1

\* lines 854-866: the assignee, when the name resolves, gets a notification;
\* the error of createNotification is dropped
createCardNotify(r, ok) ==
    IF r.assigned # NoName /\ getUserIDByUsername(r.assigned) # NoUser
    THEN createNotification(r, Notification(getUserIDByUsername(r.assigned),
                                   "new_task_assigned", r.board, r.card, 0), ok)
    ELSE r

\* the broadcast without the check of the commit error
createCardAfterCommitUnchecked(r, err) == ToBroadcast(r, r.board, "created")

\* lines 867-871: the commit error is checked before the broadcast
createCardAfterCommit(r, err) ==
    IF err THEN Return(r, "error") ELSE ToBroadcast(r, r.board, "created")

createCard(p) ==
    LET r == req[p] IN
    /\ r.op = "createCard"
    /\ \/ /\ r.pc = "start"
          /\ LET b == getBoardIDFromColumn(db, r.col) IN
             Set(p, IF b = 0 THEN Return(r, "not_found") ELSE [r EXCEPT !.board = b, !.pc = "perm"])
          /\ UNCHANGED <<storeVars, commits>>
       \/ /\ r.pc = "perm"
          /\ Set(p, IF checkBoardPermission(db, r.user, r.board)
                       THEN [r EXCEPT !.pc = "tx"] ELSE Return(r, "denied"))
          /\ UNCHANGED <<storeVars, commits>>
       \/ /\ r.pc = "tx"
          /\ \E ok \in Outcome, okN \in BOOLEAN :
                IF ok
                THEN LET id == serial.card + 1
                         row == [id |-> id, col |-> r.col,
                                 pos |-> createCardPosition(db, r.col),
                                 assigned |-> r.assigned] IN
                     /\ serial' = [serial EXCEPT !.card = id]
                     /\ Set(p, [createCardNotify(
                                   [r EXCEPT !.card = id,
                                             !.tx = <<[k |-> "insCard", row |-> row]>>], okN)
                                EXCEPT !.pc = "commit"])
                ELSE /\ Set(p, Return(r, "error"))
                     /\ UNCHANGED serial
          /\ UNCHANGED <<db, commits>>
       \/ /\ r.pc = "commit"
          /\ \E ok \in BOOLEAN :
                /\ TxCommit(r, Committed(r, ok))
                /\ Set(p, createCardAfterCommit(r, ~Committed(r, ok)))
          /\ UNCHANGED serial
    /\ UNCHANGED <<nreq, lockVars, wsVars, bg>>

\* ------------------------------------------------------------- updateCard
\* lines 899-914: a changed, non-empty assignee that resolves gets a notification
updateCardNotify(r, d, ok) ==
    IF /\ r.assigned # NoName
       /\ r.assigned # r.old
       /\ getBoardIDFromCard(d, r.card) # 0
       /\ getUserIDByUsername(r.assigned) # NoUser
    THEN createNotification(r, Notification(getUserIDByUsername(r.assigned),
                                   "new_task_assigned", getBoardIDFromCard(d, r.card),
                                   r.card, 0), ok)
    ELSE r

updateCardAfterCommit(r, err) ==
    IF err THEN Return(r, "error") ELSE [r EXCEPT !.pc = "refetch", !.tx = <<>>]

updateCard(p) ==
    LET r == req[p] IN
    /\ r.op = "updateCard"
    /\ \/ /\ r.pc = "start"
          /\ \E ok \in Outcome :
                Set(p, IF ~ok THEN Return(r, "error")
                       ELSE IF CardRows(db, r.card) = {} THEN Return(r, "not_found")
                       ELSE [r EXCEPT !.old = (CHOOSE x \in CardRows(db, r.card) : TRUE).assigned,
                                      !.tx = <<[k |-> "updCard", id |-> r.card,
                                                assigned |-> r.assigned]>>,
                                      !.pc = "notify"])
          /\ UNCHANGED <<db, commits>>
       \/ /\ r.pc = "notify"
          /\ \E ok \in BOOLEAN :
                Set(p, [updateCardNotify(r, db, ok) EXCEPT !.pc = "commit"])
          /\ UNCHANGED <<db, commits>>
       \/ /\ r.pc = "commit"
          /\ \E ok \in BOOLEAN :
                /\ TxCommit(r, Committed(r, ok))
                /\ Set(p, updateCardAfterCommit(r, ~Committed(r, ok)))
       \/ /\ r.pc = "refetch"
          /\ LET b == getBoardIDFromCard(db, r.card) IN
             Set(p, IF b = 0 THEN Return(r, "updated") ELSE ToBroadcast(r, b, "updated"))
          /\ UNCHANGED <<db, commits>>
    /\ UNCHANGED <<serial, nreq, lockVars, wsVars, bg>>

\* ------------------------------------------------------------- deleteCard
deleteCard(p) ==
    LET r == req[p] IN
    /\ r.op = "deleteCard"
    /\ \/ /\ r.pc = "start"
          /\ Set(p, [r EXCEPT !.board = getBoardIDFromCard(db, r.card), !.pc = "exec"])
          /\ UNCHANGED <<db, commits>>
       \/ /\ r.pc = "exec"
          /\ \E ok \in Outcome :
                /\ Exec(r, [k |-> "delCard", id |-> r.card], ok)
                /\ Set(p, IF ~ok THEN Return(r, "error")
                          ELSE IF r.board # 0 THEN ToBroadcast(r, r.board, "deleted")
                          ELSE Return(r, "deleted"))
    /\ UNCHANGED <<serial, nreq, lockVars, wsVars, bg>>

\* ------------------------------------------------------------- createColumn
\* lines 369-375: MAX(position) of the board's columns + 1, NULL read as 0
createColumnPosition(d, b) ==
    (IF ColumnsOf(d, b) = {} THEN 0 ELSE Max({x.position : x \in ColumnsOf(d, b)})) + 1

createColumn(p) ==
    LET r == req[p] IN
    /\ r.op = "createColumn"
    /\ \/ /\ r.pc = "start"
          /\ Set(p, IF r.board = 0 THEN Return(r, "bad_request")
                    ELSE [r EXCEPT !.loc = createColumnPosition(db, r.board), !.pc = "exec"])
          /\ UNCHANGED <<storeVars, commits>>
       \/ /\ r.pc = "exec"
          /\ \E ok \in Outcome :
                /\ Exec(r, [k |-> "insCol",
                            row |-> [id |-> serial.col + 1, board |-> r.board,
                                     title |-> "new", position |-> r.loc]], ok)
                /\ serial' = IF ok THEN [serial EXCEPT !.col = @ + 1] ELSE serial
                /\ Set(p, IF ok THEN ToBroadcast(r, r.board, "created") ELSE Return(r, "error"))
    /\ UNCHANGED <<nreq, lockVars, wsVars, bg>>

\* ------------------------------------------------------------- createBoard
\* the seed columns with positions counted from 1
defaultColumnsFromOne(b, first) ==
    [i \in 1..3 |->
        [k |-> "insCol",
         row |-> [id |-> first + i, board |-> b,
                  title |-> <<"A Fazer", "Em Andamento", "Concluído">>[i],
                  position |-> i]]]

\* lines 628-642: the three default columns of board b, at positions 0, 1, 2
defaultColumns(b, first) ==
    [i \in 1..3 |->
        [k |-> "insCol",
         row |-> [id |-> first + i, board |-> b,
                  title |-> <<"A Fazer", "Em Andamento", "Concluído">>[i],
                  position |-> i - 1]]]

\* lines 605-647: the board row and its default columns are inserted in one
\* transaction; nothing is broadcast
createBoard(p) ==
    LET r == req[p] IN
    /\ r.op = "createBoard"
    /\ \/ /\ r.pc = "start"
          /\ IF r.title = ""
                THEN /\ Set(p, Return(r, "bad_request"))
                     /\ UNCHANGED serial
                ELSE \E ok \in Outcome :
                        IF ok
                        THEN LET id == serial.board + 1 IN
                             /\ Set(p, [r EXCEPT !.board = id, !.pc = "commit",
                                          !.tx = <<[k |-> "insBoard",
                                                    row |-> [id |-> id, owner |-> r.user,
                                                             isPublic |-> r.public]]>>
                                                 \o defaultColumns(id, serial.col)])
                             /\ serial' = [serial EXCEPT !.board = id, !.col = @ + 3]
                        ELSE /\ Set(p, Return(r, "error"))
                             /\ UNCHANGED serial
          /\ UNCHANGED <<db, commits>>
       \/ /\ r.pc = "commit"
          /\ \E ok \in BOOLEAN :
                /\ TxCommit(r, Committed(r, ok))
                /\ Set(p, Return(r, IF Committed(r, ok) THEN "created" ELSE "error"))
          /\ UNCHANGED serial
    /\ UNCHANGED <<nreq, lockVars, wsVars, bg>>

\* ------------------------------------------------------------- deleteColumn
\* a count that finds no card in any column
cardCountNone(d, c) == 0

\* lines 401-402: SELECT COUNT(*) FROM cards WHERE column_id = $1
cardCount(d, c) == Cardinality(CardsIn(d, c))

deleteColumnAfterCommit(r, err) ==
    IF err THEN Return(r, "error") ELSE ToBroadcast(r, r.board, "deleted")

deleteColumn(p) ==
    LET r == req[p] IN
    /\ r.op = "deleteColumn"
    /\ \/ /\ r.pc = "start"
          /\ \E ok \in Outcome :
                Set(p, IF ~ok THEN Return(r, "error")
                       ELSE IF cardCount(db, r.col) > 0 THEN Return(r, "conflict")
                       ELSE [r EXCEPT !.pc = "read"])
          /\ UNCHANGED <<db, commits>>
       \/ /\ r.pc = "read"
          /\ \E ok \in Outcome :
                Set(p, IF ColumnRows(db, r.col) = {} THEN Return(r, "not_found")
                       ELSE IF ~ok THEN Return(r, "error")
                       ELSE LET c == CHOOSE x \in ColumnRows(db, r.col) : TRUE IN
                            [r EXCEPT !.board = c.board, !.pc = "commit",
                                      !.tx = <<[k |-> "delCol", id |-> r.col],
                                               [k |-> "shiftCols", board |-> c.board,
                                                position |-> c.position]>>])
          /\ UNCHANGED <<db, commits>>
       \/ /\ r.pc = "commit"
          /\ \E ok \in BOOLEAN :
                /\ TxCommit(r, Committed(r, ok))
                /\ Set(p, deleteColumnAfterCommit(r, ~Committed(r, ok)))
    /\ UNCHANGED <<serial, nreq, lockVars, wsVars, bg>>

\* ------------------------------------------------------------- reorderCards
\* getColumnLock, lines 176-186: the whole function runs under colLocks.mu
NewLock == Cardinality(DOMAIN held) + 1

\* a lookup that hands out a new lock every time
getColumnLockFresh(c) == NewLock

getColumnLock(c) == IF c \in DOMAIN locks THEN locks[c] ELSE NewLock

\* the update with positions counted from 1
reorderUpdateOffByOne(order, i, c) ==
    [k |-> "setPos", id |-> order[i + 1], pos |-> i + 1, col |-> c]

\* an update bound to the index of the loop where the card id belongs
reorderUpdateByIndex(order, i, c) ==
    [k |-> "setPos", id |-> i + 1, pos |-> i, col |-> c]

\* lines 1017-1018: the card at index i of the list gets position i in the column
reorderUpdate(order, i, c) ==
    [k |-> "setPos", id |-> order[i + 1], pos |-> i, col |-> c]

\* lines 1017-1021: one UPDATE per listed card, in the order of the list
reorderUpdates(order, c) ==
    [n \in DOMAIN order |-> reorderUpdate(order, n - 1, c)]

\* a return that leaves the column's lock locked
UnlockNever(r) == held' = held

\* line 1003: defer columnLock.Unlock(), run on every return after Lock()
Unlock(r) == held' = [held EXCEPT ![r.lock] = 0]

\* lines 1027-1032: go func
Spawn(r) == [id |-> r.id, col |-> r.col, pc |-> "board", board |-> 0, todo |-> {}]

reorderCards(p) ==
    LET r == req[p] IN
    /\ r.op = "reorderCards"
    /\ \/ /\ r.pc = "start"
          /\ Set(p, [r EXCEPT !.lock = getColumnLock(r.col), !.pc = "lock"])
          /\ IF r.col \in DOMAIN locks
                THEN UNCHANGED lockVars
                ELSE /\ locks' = locks @@ (r.col :> NewLock)
                     /\ held' = held @@ (NewLock :> 0)
          /\ UNCHANGED <<db, commits, bg>>
       \/ /\ r.pc = "lock"
          /\ held[r.lock] = 0
          /\ \E ok \in Outcome :
                IF ok
                THEN /\ held' = [held EXCEPT ![r.lock] = p]
                     /\ Set(p, [r EXCEPT !.pc = "commit", !.tx = reorderUpdates(r.order, r.col)])
                ELSE /\ Set(p, Return(r, "error"))
                     /\ UNCHANGED held
          /\ UNCHANGED <<db, commits, bg, locks>>
       \/ /\ r.pc = "commit"
          /\ \E ok \in BOOLEAN :
                /\ TxCommit(r, Committed(r, ok))
                /\ Set(p, Return(r, IF Committed(r, ok) THEN "reordered" ELSE "error"))
                /\ bg' = IF Committed(r, ok) THEN bg \cup {Spawn(r)} ELSE bg
          /\ Unlock(r)
          /\ UNCHANGED locks
    /\ UNCHANGED <<serial, nreq, wsVars>>

\* the goroutine of lines 1027-1032
background ==
    \E t \in bg :
        /\ \/ /\ t.pc = "board"
              /\ LET b == getBoardIDFromColumn(db, t.col) IN
                 bg' = IF b = 0 \/ Listeners(b) = {} THEN bg \ {t}
                       ELSE (bg \ {t}) \cup {[t EXCEPT !.pc = "bcast", !.board = b,
                                                       !.todo = Listeners(b)]}
              /\ UNCHANGED wsVars
           \/ /\ t.pc = "bcast"
              /\ \E c \in t.todo \cup Late(t.board, t.id, t.todo) :
                    IF Blocks(c, t.board)
                    THEN /\ bg' = (bg \ {t}) \cup {[t EXCEPT !.pc = "blocked"]}
                         /\ UNCHANGED wsVars
                    ELSE /\ bg' = IF t.todo \ {c} = {} THEN bg \ {t}
                                  ELSE (bg \ {t}) \cup {[t EXCEPT !.todo = @ \ {c}]}
                         /\ IF c \in Listeners(t.board)
                               THEN \E ok \in BOOLEAN :
                                       WriteMessage(c, t.board,
                                           [type |-> "BOARD_STATE_UPDATED", req |-> t.id], ok)
                               ELSE UNCHANGED wsVars
        /\ UNCHANGED <<storeVars, req, nreq, commits, lockVars>>

\* ------------------------------------------------------------- handleWebSocket
NoConn ==
    [pc |-> "free", board |-> 0, cred |-> NoUser, user |-> NoUser, open |-> FALSE,
     stalled |-> FALSE]

\* c.Locals("userID"): set by authMiddleware, on the routes it is mounted on
Resolved(path, cred) ==
    IF \E m \in Middleware : IsPrefix(m.prefix, path) /\ m.h = "auth" THEN cred ELSE NoUser

\* GET /ws/board/:id upgraded to a WebSocket: handleWebSocket starts
wsUpgrade(c, b, cred) ==
    /\ conn[c].pc = "free"
    /\ Admitted(WsPath, cred)
    /\ conn' = [conn EXCEPT ![c] = [pc |-> "check", board |-> b, cred |-> cred,
                                    user |-> Resolved(WsPath, cred), open |-> TRUE,
                                    stalled |-> FALSE]]
    /\ UNCHANGED <<storeVars, req, nreq, commits, lockVars, clients, sent, bg>>

\* an exit that leaves the entry of the board in app.clients
dropEmptyNever(cl, b) == cl

\* lines 263-265: the entry of the board is deleted when its set is empty
dropEmpty(cl, b) ==
    IF b \in DOMAIN cl /\ cl[b] = {} THEN [x \in DOMAIN cl \ {b} |-> cl[x]] ELSE cl

\* app.clients is a plain map: every access of it is a step of its own
handleWebSocket(c) ==
    LET h == conn[c] IN
    /\ \/ /\ h.pc = "check"
          /\ conn' = [conn EXCEPT ![c].pc =
                         IF h.board \in DOMAIN clients THEN "insert" ELSE "make"]
          /\ UNCHANGED clients
       \/ /\ h.pc = "make"
          /\ clients' = (h.board :> {}) @@ clients
          /\ conn' = [conn EXCEPT ![c].pc = "insert"]
       \/ /\ h.pc = "insert"
          /\ IF h.board \in DOMAIN clients
                THEN /\ clients' = [clients EXCEPT ![h.board] = @ \cup {c}]
                     /\ conn' = [conn EXCEPT ![c].pc = "reading"]
                ELSE /\ conn' = [conn EXCEPT ![c].pc = "panic", ![c].open = FALSE]
                     /\ UNCHANGED clients
       \/ /\ h.pc = "reading"
          /\ conn' = [conn EXCEPT ![c].pc = "delete"]
          /\ UNCHANGED clients
       \/ /\ h.pc = "delete"
          /\ clients' = IF h.board \in DOMAIN clients
                           THEN [clients EXCEPT ![h.board] = @ \ {c}] ELSE clients
          /\ conn' = [conn EXCEPT ![c].pc = "len"]
       \/ /\ h.pc = "len"
          /\ clients' = dropEmpty(clients, h.board)
          /\ conn' = [conn EXCEPT ![c].pc = "closed", ![c].open = FALSE]
    /\ UNCHANGED <<storeVars, req, nreq, commits, lockVars, sent, bg>>

\* the peer of an open connection stops reading
peerStalls(c) ==
    /\ conn[c].open
    /\ ~conn[c].stalled
    /\ conn' = [conn EXCEPT ![c].stalled = TRUE]
    /\ UNCHANGED <<storeVars, req, nreq, commits, lockVars, clients, sent, bg>>

\* a broadcast is inside its loop over the map of board b
Iterating(b) ==
    \/ \E p \in Procs : req[p].pc = "bcast" /\ req[p].board = b
    \/ \E t \in bg : t.pc = "bcast" /\ t.board = b

\* the next statement of connection c's handler writes app.clients or the map
\* of its board, or reads app.clients
Writes(c) == conn[c].pc \in {"make", "insert", "delete", "len"}
Reads(c) == conn[c].pc = "check"

\* two goroutines are at the same map and one of them writes it: nothing
\* orders the accesses (no mutex guards app.clients)
Racing ==
    \E c \in Conns :
        /\ Writes(c)
        /\ \/ \E d \in Conns \ {c} : Writes(d) \/ Reads(d)
           \/ conn[c].pc \in {"insert", "delete"} /\ Iterating(conn[c].board)

\* the runtime detects the unsynchronized map access and ends the process
\* ("fatal error: concurrent map writes", "concurrent map iteration and map
\* write"): every handler stops and every connection is closed
fatal ==
    /\ Racing
    /\ req' = [p \in Procs |-> [Idle EXCEPT !.pc = "crashed"]]
    /\ conn' = [c \in Conns |-> [conn[c] EXCEPT !.pc = "crashed", !.open = FALSE]]
    /\ clients' = <<>>
    /\ locks' = <<>>
    /\ held' = <<>>
    /\ bg' = {}
    /\ UNCHANGED <<storeVars, nreq, commits, sent>>

\* ------------------------------------------------------------- getColumns
\* strings.ToLower on the titles that occur
ToLower(t) ==
    CASE t = "Solucionado" -> "solucionado"
      [] t = "Não Solucionado" -> "não solucionado"
      [] OTHER -> t

\* getPublicBoardColumns, lines 700-738: the status columns the board lacks,
\* placed after its last column
statusColumns(d, b, first) ==
    LET cols == ColumnsOf(d, b)
        maxPosition == IF cols = {} THEN -1 ELSE Max({x.position : x \in cols} \cup {-1})
        foundS == \E x \in cols : ToLower(x.title) = "solucionado"
        foundN == \E x \in cols : ToLower(x.title) = "não solucionado"
        s == IF foundS THEN <<>>
             ELSE <<[k |-> "insCol",
                     row |-> [id |-> first, board |-> b, title |-> "Solucionado",
                              position |-> maxPosition + 1]]>>
        n == IF foundN THEN <<>>
             ELSE <<[k |-> "insCol",
                     row |-> [id |-> first + Len(s), board |-> b, title |-> "Não Solucionado",
                              position |-> maxPosition + 1 + Len(s)]]>>
    IN s \o n

getColumns(p) ==
    LET r == req[p] IN
    /\ r.op = "getColumns"
    /\ \/ /\ r.pc = "start"
          /\ Set(p, IF checkBoardPermission(db, r.user, r.board)
                       THEN [r EXCEPT !.pc = "list"] ELSE Return(r, "denied"))
          /\ UNCHANGED <<storeVars, commits>>
       \/ /\ r.pc = "list"
          /\ IF \E x \in BoardRows(db, r.board) : x.isPublic
                THEN \E ok \in Outcome :
                        IF ok
                        THEN LET ins == statusColumns(db, r.board, serial.col + 1) IN
                             /\ Set(p, [r EXCEPT !.tx = ins, !.pc = "commit"])
                             /\ serial' = [serial EXCEPT !.col = @ + Len(ins)]
                        ELSE /\ Set(p, Return(r, "error"))
                             /\ UNCHANGED serial
                ELSE /\ Set(p, Return(r, "ok"))
                     /\ UNCHANGED serial
          /\ UNCHANGED <<db, commits>>
       \/ /\ r.pc = "commit"
          /\ \E ok \in BOOLEAN :
                /\ TxCommit(r, Committed(r, ok))
                /\ Set(p, IF ~Committed(r, ok) THEN Return(r, "error")
                          ELSE IF r.tx # <<>> THEN [r EXCEPT !.pc = "refetch", !.tx = <<>>]
                          ELSE Return(r, "ok"))
          /\ UNCHANGED serial
       \/ /\ r.pc = "refetch"
          /\ Set(p, Return(r, "ok"))
          /\ UNCHANGED <<storeVars, commits>>
    /\ UNCHANGED <<nreq, lockVars, wsVars, bg>>

\* ------------------------------------------------------------- getCards
getCards(p) ==
    LET r == req[p] IN
    /\ r.op = "getCards"
    /\ \/ /\ r.pc = "start"
          /\ LET b == getBoardIDFromColumn(db, r.col) IN
             Set(p, IF b = 0 THEN Return(r, "not_found") ELSE [r EXCEPT !.board = b, !.pc = "perm"])
       \/ /\ r.pc = "perm"
          /\ Set(p, IF checkBoardPermission(db, r.user, r.board)
                       THEN [r EXCEPT !.pc = "list"] ELSE Return(r, "denied"))
       \/ /\ r.pc = "list"
          /\ Set(p, Return(r, "ok"))
    /\ UNCHANGED <<storeVars, nreq, commits, lockVars, wsVars, bg>>

\* ------------------------------------------------------------- getBoardMembers
getBoardMembers(p) ==
    LET r == req[p] IN
    /\ r.op = "getBoardMembers"
    /\ \/ /\ r.pc = "start"
          /\ Set(p, IF checkBoardPermission(db, r.user, r.board)
                       THEN [r EXCEPT !.pc = "list"] ELSE Return(r, "denied"))
       \/ /\ r.pc = "list"
          /\ Set(p, Return(r, "ok"))
    /\ UNCHANGED <<storeVars, nreq, commits, lockVars, wsVars, bg>>

\* ------------------------------------------------------------- inviteUserToBoard
\* the check query without its third SELECT
existingCountNoPending(d, b, u) ==
    Cardinality({x.owner : x \in {y \in BoardRows(d, b) : y.owner = u}}
                \cup {m.user : m \in MemberRows(d, b, u)})

\* the check query without its first SELECT
existingCountNoOwner(d, b, u) ==
    Cardinality({m.user : m \in MemberRows(d, b, u)}
                \cup {x.invitee : x \in PendingRows(d, b, u)})

\* board_invitations.board_id refers to a row of boards: the INSERT of line 1158
\* is refused for a board that has no row (the storage layer's referential rules)
boardReferenced(d, b) == BoardRows(d, b) # {}

\* checkQuery, lines 1131-1139: the owner, the members and the pending invitees
\* of the board, as one set of user ids, restricted to the invitee
existingCount(d, b, u) ==
    Cardinality({x.owner : x \in {y \in BoardRows(d, b) : y.owner = u}}
                \cup {m.user : m \in MemberRows(d, b, u)}
                \cup {x.invitee : x \in PendingRows(d, b, u)})

inviteUserToBoard(p) ==
    LET r == req[p] IN
    /\ r.op = "inviteUserToBoard"
    /\ \/ /\ r.pc = "start"
          /\ IF existingCount(db, r.board, r.target) > 0
                THEN /\ Set(p, Return(r, "invited_or_exists"))
                     /\ UNCHANGED serial
                ELSE \E ok \in Outcome, okN \in Outcome :
                        IF ok /\ boardReferenced(db, r.board)
                        THEN LET id == serial.inv + 1
                                 row == [id |-> id, board |-> r.board, inviter |-> r.user,
                                         invitee |-> r.target, status |-> "pending"]
                                 n == Notification(r.target, "board_invitation", r.board, 0, id) IN
                             /\ serial' = [serial EXCEPT !.inv = id]
                             /\ Set(p, IF okN
                                       THEN [r EXCEPT !.inv = id, !.pc = "commit",
                                                !.tx = <<[k |-> "insInv", row |-> row],
                                                         [k |-> "insNotif", row |-> n]>>]
                                       ELSE Return(r, "error"))
                        ELSE /\ Set(p, Return(r, "error"))
                             /\ UNCHANGED serial
          /\ UNCHANGED <<db, commits>>
       \/ /\ r.pc = "commit"
          /\ \E ok \in BOOLEAN :
                /\ TxCommit(r, Committed(r, ok))
                /\ Set(p, Return(r, IF Committed(r, ok) THEN "invited" ELSE "error"))
          /\ UNCHANGED serial
    /\ UNCHANGED <<nreq, lockVars, wsVars, bg>>

\* ------------------------------------------------------------- respondToInvitation
\* getDisplayName, lines 147-173: the name of a user, or a fixed text when the
\* query fails; never empty for an account that has an e-mail address
getDisplayName(u) == IF u \in Users THEN u ELSE "Um usuário"

\* lines 1245-1250: the notification named by the query parameter is marked
\* read; a failure is only logged
markRead(r, ok) ==
    IF r.notif > 0 THEN Stmt(r, [k |-> "markRead", id |-> r.notif, user |-> r.user], ok)
    ELSE r

\* lines 1232-1242: owner_id of the board is read and addressed; the result of
\* createNotification is dropped
ownerNotification(r, d, ok) ==
    LET ownerID == IF BoardRows(d, r.board) = {} THEN NoName
                   ELSE (CHOOSE x \in BoardRows(d, r.board) : TRUE).owner IN
    IF ownerID # NoName /\ getDisplayName(r.user) # NoName
    THEN createNotification(r, Notification(ownerID, "invitation_accepted", r.board, 0, 0), ok)
    ELSE r

respondToInvitation(p) ==
    LET r == req[p] IN
    /\ r.op = "respondToInvitation"
    /\ \/ /\ r.pc = "start"
          /\ \E ok \in Outcome, okM \in Outcome, okR \in BOOLEAN :
                LET rows == InviteeRows(db, r.inv, r.user)
                    b == (CHOOSE x \in rows : TRUE).board
                    upd == [k |-> "updInv", id |-> r.inv, user |-> r.user,
                            status |-> IF r.accept THEN "accepted" ELSE "rejected"] IN
                Set(p, IF ~ok THEN Return(r, "error")
                       ELSE IF rows = {} THEN Return(r, "not_found")
                       ELSE IF r.accept
                       THEN IF okM
                            THEN [r EXCEPT !.board = b, !.pc = "owner",
                                     !.tx = <<upd, [k |-> "insMem", board |-> b,
                                                    user |-> r.user]>>]
                            ELSE Return(r, "error")
                       ELSE [markRead([r EXCEPT !.board = b, !.tx = <<upd>>], okR)
                             EXCEPT !.pc = "commit"])
          /\ UNCHANGED <<db, commits>>
       \/ /\ r.pc = "owner"
          /\ \E okN \in BOOLEAN, okR \in BOOLEAN :
                Set(p, [markRead(ownerNotification(r, View(p), okN), okR)
                        EXCEPT !.pc = "commit"])
          /\ UNCHANGED <<db, commits>>
       \/ /\ r.pc = "commit"
          /\ \E ok \in BOOLEAN :
                /\ TxCommit(r, Committed(r, ok))
                /\ Set(p, Return(r, IF Committed(r, ok) THEN "responded" ELSE "error"))
    /\ UNCHANGED <<serial, nreq, lockVars, wsVars, bg>>

\* ------------------------------------------------------------- leaveBoard
\* SELECT owner_id FROM boards WHERE id = $1: "" when the board has no row
ownerID(d, b) ==
    IF BoardRows(d, b) = {} THEN NoName ELSE (CHOOSE x \in BoardRows(d, b) : TRUE).owner

\* lines 1038-1064: the owner cannot leave; anyone else deletes the own
\* membership row of the board, if there is one
leaveBoard(p) ==
    LET r == req[p] IN
    /\ r.op = "leaveBoard"
    /\ \/ /\ r.pc = "start"
          /\ Set(p, IF BoardRows(db, r.board) = {} THEN Return(r, "not_found")
                    ELSE IF ownerID(db, r.board) = r.user THEN Return(r, "forbidden")
                    ELSE [r EXCEPT !.pc = "exec"])
          /\ UNCHANGED <<db, commits>>
       \/ /\ r.pc = "exec"
          /\ \E ok \in Outcome :
                /\ Exec(r, [k |-> "delMem", board |-> r.board, user |-> r.user], ok)
                /\ Set(p, Return(r, IF ok THEN "no_content" ELSE "error"))
    /\ UNCHANGED <<serial, nreq, lockVars, wsVars, bg>>

\* ------------------------------------------------------------- removeBoardMember
\* line 1359: the owner is never the one removed
removeTarget(owner, target) == owner # target

\* a check of the caller that lets anyone remove
removeCallerAny(owner, caller) == TRUE

\* line 1355: only the owner removes
removeCaller(owner, caller) == owner = caller

\* lines 1343-1371
removeBoardMember(p) ==
    LET r == req[p] IN
    /\ r.op = "removeBoardMember"
    /\ \/ /\ r.pc = "start"
          /\ Set(p, IF BoardRows(db, r.board) = {} THEN Return(r, "not_found")
                    ELSE IF ~removeCaller(ownerID(db, r.board), r.user)
                         THEN Return(r, "forbidden")
                    ELSE IF ~removeTarget(ownerID(db, r.board), r.target)
                         THEN Return(r, "bad_request")
                    ELSE [r EXCEPT !.pc = "exec"])
          /\ UNCHANGED <<db, commits>>
       \/ /\ r.pc = "exec"
          /\ \E ok \in Outcome :
                /\ Exec(r, [k |-> "delMem", board |-> r.board, user |-> r.target], ok)
                /\ Set(p, Return(r, IF ok THEN "no_content" ELSE "error"))
    /\ UNCHANGED <<serial, nreq, lockVars, wsVars, bg>>

\* ------------------------------------------------------------- deleteBoard
\* a check that lets any caller delete
deleteCallerAny(owner, caller) == TRUE

\* line 442: only the owner deletes
deleteCaller(owner, caller) == owner = caller

\* lines 430-451: nothing is broadcast
deleteBoard(p) ==
    LET r == req[p] IN
    /\ r.op = "deleteBoard"
    /\ \/ /\ r.pc = "start"
          /\ Set(p, IF BoardRows(db, r.board) = {} THEN Return(r, "not_found")
                    ELSE IF ~deleteCaller(ownerID(db, r.board), r.user)
                         THEN Return(r, "forbidden")
                    ELSE [r EXCEPT !.pc = "exec"])
          /\ UNCHANGED <<db, commits>>
       \/ /\ r.pc = "exec"
          /\ \E ok \in Outcome :
                /\ Exec(r, [k |-> "delBoard", id |-> r.board], ok)
                /\ Set(p, Return(r, IF ok THEN "no_content" ELSE "error"))
    /\ UNCHANGED <<serial, nreq, lockVars, wsVars, bg>>

\* ------------------------------------------------------------- permission
\* a caller of checkBoardPermission, up to the answer of the check
resolve(p) ==
    LET r == req[p] IN
    /\ r.op = "checkBoardPermission"
    /\ r.pc = "start"
    /\ Set(p, Return(r, IF checkBoardPermission(db, r.user, r.board)
                           THEN "granted" ELSE "denied"))
    /\ UNCHANGED <<storeVars, nreq, commits, lockVars, wsVars, bg>>

\* ------------------------------------------------------------- initial states
Private1 == [id |-> 1, owner |-> "u1", isPublic |-> FALSE]
Column(i, b, pos) == [id |-> i, board |-> b, title |-> "seed", position |-> pos]
Card(i, c, pos) == [id |-> i, col |-> c, pos |-> pos, assigned |-> NoName]

EmptyStore ==
    [boards |-> {}, columns |-> {}, cards |-> {}, memberships |-> {},
     invitations |-> {}, notifications |-> <<>>]

\* the id sequences after the rows of d were inserted
Serial(d) ==
    [card |-> Max({x.id : x \in d.cards} \cup {0}),
     col |-> Max({x.id : x \in d.columns} \cup {0}),
     inv |-> Max({x.id : x \in d.invitations} \cup {0}),
     board |-> Max({x.id : x \in d.boards} \cup {0})]

\* the server with no lock created and no request in flight; the connections
\* in open have been upgraded on board 1 and their handlers are in the read loop
Started(d, open) ==
    /\ db = d
    /\ serial = Serial(d)
    /\ req = [p \in Procs |-> Idle]
    /\ nreq = 0
    /\ commits = <<>>
    /\ locks = <<>>
    /\ held = <<>>
    /\ clients = IF open = {} THEN <<>> ELSE (1 :> open)
    /\ conn = [c \in Conns |->
                 IF c \in open
                    THEN [pc |-> "reading", board |-> 1, cred |-> "u1",
                          user |-> Resolved(WsPath, "u1"), open |-> TRUE,
                          stalled |-> FALSE]
                    ELSE NoConn]
    /\ sent = [c \in Conns |-> <<>>]
    /\ bg = {}

\* ------------------------------------------------------------- requests
ListColumns(u, b) == [Idle EXCEPT !.op = "getColumns", !.user = u, !.board = b]
ListCards(u, c) == [Idle EXCEPT !.op = "getCards", !.user = u, !.col = c]
ListMembers(u, b) == [Idle EXCEPT !.op = "getBoardMembers", !.user = u, !.board = b]
NewColumn(u, b) == [Idle EXCEPT !.op = "createColumn", !.user = u, !.board = b]
NewCard(u, c, a) == [Idle EXCEPT !.op = "createCard", !.user = u, !.col = c, !.assigned = a]
EditCard(u, k, a) == [Idle EXCEPT !.op = "updateCard", !.user = u, !.card = k, !.assigned = a]
DropCard(u, k) == [Idle EXCEPT !.op = "deleteCard", !.user = u, !.card = k]
DropColumn(u, c) == [Idle EXCEPT !.op = "deleteColumn", !.user = u, !.col = c]
NewBoard(u, t, pub) ==
    [Idle EXCEPT !.op = "createBoard", !.user = u, !.title = t, !.public = pub]
Reorder(u, c, o) == [Idle EXCEPT !.op = "reorderCards", !.user = u, !.col = c, !.order = o]
Invite(u, b, v) == [Idle EXCEPT !.op = "inviteUserToBoard", !.user = u, !.board = b, !.target = v]
Check(u, b) == [Idle EXCEPT !.op = "checkBoardPermission", !.user = u, !.board = b]
Leave(u, b) == [Idle EXCEPT !.op = "leaveBoard", !.user = u, !.board = b]
RemoveMember(u, b, v) ==
    [Idle EXCEPT !.op = "removeBoardMember", !.user = u, !.board = b, !.target = v]
DropBoard(u, b) == [Idle EXCEPT !.op = "deleteBoard", !.user = u, !.board = b]
Respond(u, i, a, n) ==
    [Idle EXCEPT !.op = "respondToInvitation", !.user = u, !.inv = i, !.accept = a, !.notif = n]

\* the sequences over a set of ids, up to length n
RECURSIVE Lists(_, _)
Lists(S, n) ==
    IF n = 0 THEN {<<>>}
    ELSE Lists(S, n - 1) \cup
         {Append(l, x) : l \in {m \in Lists(S, n - 1) : Len(m) = n - 1}, x \in S}

Distinct(l) == \A i, j \in DOMAIN l : i # j => l[i] # l[j]

Range(l) == {l[i] : i \in DOMAIN l}

Last(l) == l[Len(l)]

\* the connections to which an event of request i was written
EventsOf(i) == {c \in Conns : \E n \in DOMAIN sent[c] : sent[c][n].req = i}

\* ------------------------------------------------------------- cards, one request at a time
\* board 1 with two columns, no card yet
CardsStore ==
    [EmptyStore EXCEPT !.boards = {Private1},
                       !.columns = {Column(1, 1, 0), Column(2, 1, 1)}]

InitCards == Started(CardsStore, {1})

Alone(p) == \A q \in Procs \ {p} : Free(q)

NextCardsSeq ==
    \/ \E p \in Procs, c \in {1, 2} : Alone(p) /\ Receive(p, NewCard("u1", c, NoName))
    \/ \E p \in Procs, k \in 1..serial.card : Alone(p) /\ Receive(p, DropCard("u1", k))
    \/ \E p \in Procs, c \in {1, 2}, o \in Lists(1..serial.card, serial.card) :
          Alone(p) /\ Distinct(o) /\ Receive(p, Reorder("u1", c, o))
    \/ \E p \in Procs : createCard(p)
    \/ \E p \in Procs : deleteCard(p)
    \/ \E p \in Procs : reorderCards(p)
    \/ \E p \in Procs : Broadcast(p)
    \/ background

SpecCardsSeq == InitCards /\ [][NextCardsSeq]_vars

Dense(d, c) ==
    /\ {x.pos : x \in CardsIn(d, c)} = 0..(Cardinality(CardsIn(d, c)) - 1)
    /\ \A x, y \in CardsIn(d, c) : x.pos = y.pos => x = y

\* C1: after any sequence of successful createCard, deleteCard and reorderCards
\* requests served one at a time, the positions of the cards of every column
\* are exactly 0 .. count-1, without duplicates and without gaps
C1_PositionDensity == \A c \in {1, 2} : Dense(db, c)

\* ------------------------------------------------------------- concurrent reorders
\* column 1 holds cards 1, 2, 3 at positions 0, 1, 2
ReorderStore ==
    [CardsStore EXCEPT !.cards = {Card(1, 1, 0), Card(2, 1, 1), Card(3, 1, 2)}]

InitReorder == Started(ReorderStore, {})

\* every request lists each card of column 1 exactly once
Orderings(S) == {o \in Lists(S, Cardinality(S)) : Range(o) = S /\ Distinct(o)}

NextReorder ==
    \/ \E p \in Procs, o \in Orderings({x.id : x \in CardsIn(db, 1)}) :
          Receive(p, Reorder("u1", 1, o))
    \/ \E p \in Procs : reorderCards(p)
    \/ background

SpecReorder == InitReorder /\ [][NextReorder]_vars

\* the cards listed in o stand in column c in the order of o, from position 0
InOrder(d, c, o) ==
    \A i \in DOMAIN o : \E x \in CardsIn(d, c) : x.id = o[i] /\ x.pos = i - 1

\* C2: concurrent reorderCards requests on one column, each listing every card
\* of it once, leave the column dense, in the order of the request that
\* committed last
C2_ReorderSerialized ==
    /\ Dense(db, 1)
    /\ \A p \in Procs :
          (req[p].pc = "done" /\ commits # <<>> /\ Last(commits) = req[p].id)
              => InOrder(db, 1, req[p].order)

\* two requests overlapped: the one received first committed last, and moved cards
C2_Witness ==
    \E p, q \in Procs :
        /\ req[p].pc = "done" /\ req[q].pc = "done"
        /\ req[p].id < req[q].id
        /\ Len(commits) = 2 /\ commits[1] = req[q].id /\ commits[2] = req[p].id
        /\ req[p].order # <<1, 2, 3>>
        /\ req[p].order # req[q].order

\* ------------------------------------------------------------- events
\* board 1: column 1 holds card 1, column 2 is empty; connection 1 listens
EventsStore == [CardsStore EXCEPT !.cards = {Card(1, 1, 0)}]

InitEvents == Started(EventsStore, {1})

NextEvents ==
    \/ \E p \in Procs : Receive(p, NewCard("u1", 1, "u2"))
    \/ \E p \in Procs : Receive(p, EditCard("u1", 1, "u2"))
    \/ \E p \in Procs : Receive(p, DropColumn("u1", 2))
    \/ \E p \in Procs : Receive(p, Reorder("u1", 1, <<1>>))
    \/ \E p \in Procs : createCard(p)
    \/ \E p \in Procs : updateCard(p)
    \/ \E p \in Procs : deleteColumn(p)
    \/ \E p \in Procs : reorderCards(p)
    \/ \E p \in Procs : Broadcast(p)
    \/ background
    \/ \E c \in Conns : handleWebSocket(c)
    \/ fatal

SpecEvents == InitEvents /\ [][NextEvents]_vars

\* C3: an event is written to a connection only for a request of createCard,
\* updateCard, deleteColumn or reorderCards whose transaction has committed;
\* a request that failed has no event on any connection
C3_NoBroadcastBeforeCommit ==
    /\ \A c \in Conns : \A n \in DOMAIN sent[c] : sent[c][n].req \in Range(commits)
    /\ \A p \in Procs :
          (req[p].pc = "done" /\ req[p].resp = "error") => EventsOf(req[p].id) = {}

\* one request failed and wrote nothing while another one's event was delivered
C3_Witness ==
    \E p \in Procs :
        /\ req[p].pc = "done" /\ req[p].resp = "error"
        /\ req[p].op = "createCard"
        /\ \E c \in Conns : sent[c] # <<>>

\* ------------------------------------------------------------- the permission gate
\* board 1 is private and owned by u1; u3 is neither its owner nor a member
Outsider == "u3"

InitGate == Started(EventsStore, {1})

NextGate ==
    \/ \E p \in Procs : Receive(p, ListColumns(Outsider, 1))
    \/ \E p \in Procs : Receive(p, ListCards(Outsider, 1))
    \/ \E p \in Procs : Receive(p, ListMembers(Outsider, 1))
    \/ \E p \in Procs : Receive(p, NewColumn(Outsider, 1))
    \/ \E p \in Procs : Receive(p, DropColumn(Outsider, 2))
    \/ \E p \in Procs : Receive(p, NewCard(Outsider, 1, NoName))
    \/ \E p \in Procs : Receive(p, EditCard(Outsider, 1, "u2"))
    \/ \E p \in Procs : Receive(p, DropCard(Outsider, 1))
    \/ \E p \in Procs : Receive(p, Reorder(Outsider, 1, <<1>>))
    \/ \E p \in Procs : Receive(p, Invite(Outsider, 1, "u2"))
    \/ \E p \in Procs : getColumns(p)
    \/ \E p \in Procs : getCards(p)
    \/ \E p \in Procs : getBoardMembers(p)
    \/ \E p \in Procs : createColumn(p)
    \/ \E p \in Procs : deleteColumn(p)
    \/ \E p \in Procs : createCard(p)
    \/ \E p \in Procs : updateCard(p)
    \/ \E p \in Procs : deleteCard(p)
    \/ \E p \in Procs : reorderCards(p)
    \/ \E p \in Procs : inviteUserToBoard(p)
    \/ \E p \in Procs : Broadcast(p)
    \/ background

SpecGate == InitGate /\ [][NextGate]_vars

\* C4: every request of a user who is neither owner nor member of a private
\* board, on that board, its columns or its cards, is answered denied (error
\* when the store fails), commits nothing to the store and writes no event to
\* any connection
C4_PermissionGate ==
    \A p \in Procs :
        req[p].user = Outsider =>
            /\ req[p].pc = "done" => req[p].resp \in {"denied", "error"}
            /\ req[p].id \notin Range(commits)
            /\ EventsOf(req[p].id) = {}

\* ------------------------------------------------------------- WebSocket upgrades
InitWS == Started(EventsStore, {})

NextWS ==
    \/ \E c \in Conns, cred \in {"u1", NoUser} : wsUpgrade(c, 1, cred)
    \/ \E c \in Conns : handleWebSocket(c)
    \/ \E p \in Procs : Receive(p, NewCard("u1", 1, NoName))
    \/ \E p \in Procs : createCard(p)
    \/ \E p \in Procs : Broadcast(p)
    \/ fatal

SpecWS == InitWS /\ [][NextWS]_vars

Registered(c) == \E b \in DOMAIN clients : c \in clients[b]

\* C5: a connection is in a board's connection set only if its upgrade request
\* was resolved to an authenticated user id; a client without valid credentials
\* is never registered and is never written an event
C5_WsAuthenticated ==
    \A c \in Conns :
        /\ Registered(c) => conn[c].user \in Users
        /\ conn[c].cred \notin Users => (~Registered(c) /\ sent[c] = <<>>)

\* C11: no handler adds a connection to a board's set, or removes one from it,
\* while a broadcast is inside its loop over that set (connect, disconnect and
\* broadcast exclude each other per board)
C11_RegistryExclusive ==
    [][\A c \in Conns :
          (conn'[c].pc # conn[c].pc /\ clients' # clients) => ~Iterating(conn[c].board)]_vars

\* ------------------------------------------------------------- a failed write
\* connections 1 and 2 are registered on board 1; the client of connection 1
\* may leave, none joins
InitFanout == Started(EventsStore, {1, 2})

NextFanout ==
    \/ \E p \in Procs : Receive(p, NewCard("u1", 1, NoName))
    \/ \E p \in Procs : createCard(p)
    \/ \E p \in Procs : Broadcast(p)
    \/ handleWebSocket(1)
    \/ fatal

SpecFanout == InitFanout /\ [][NextFanout]_vars

\* the number of events of request i written to connection c
Written(c, i) == Cardinality({n \in DOMAIN sent[c] : sent[c][n].req = i})

\* a write to c failed: c is closed and its handler has not yet seen it
Dropped(c) == conn[c].pc = "reading" /\ ~conn[c].open

\* C12: a connection whose write failed is closed and is no longer in the
\* board's set; when the broadcast has ended, every connection still in the set
\* was written the event exactly once, no connection more than once, and the
\* request that triggered the broadcast returns its success response
C12_FailedWriteIsolated ==
    /\ \A c \in Conns : Dropped(c) => c \notin Listeners(conn[c].board)
    /\ \A p \in Procs :
          (req[p].pc = "done" /\ req[p].id \in Range(commits)) =>
              /\ req[p].resp = "created"
              /\ \A c \in Listeners(1) : Written(c, req[p].id) = 1
    /\ \A c \in Conns : \A i \in 1..nreq : Written(c, i) <= 1

\* a broadcast ended after the write to one connection failed: that connection
\* got nothing, another one got the event
C12_Witness ==
    \E p \in Procs :
        /\ req[p].pc = "done" /\ req[p].resp = "created"
        /\ \E c, d \in Conns :
              /\ Dropped(c) /\ Written(c, req[p].id) = 0
              /\ d \in Listeners(1) /\ Written(d, req[p].id) = 1

\* ------------------------------------------------------------- a peer that does not read
\* connections 1 and 2 are registered on board 1; a peer may stop reading
InitStall == Started(EventsStore, {1, 2})

NextStall ==
    \/ \E p \in Procs : Receive(p, NewCard("u1", 1, NoName))
    \/ \E p \in Procs : createCard(p)
    \/ \E p \in Procs : Broadcast(p)
    \/ \E c \in Conns : peerStalls(c)

SpecStall == InitStall /\ [][NextStall]_vars

\* C13: a write that does not complete holds back neither the request that
\* triggered the broadcast nor the event for the other registered connections:
\* no request is ever left waiting inside a write, unable to return, while
\* connections of its broadcast are still to be written
C13_SlowPeerIsolated ==
    \A p \in Procs : req[p].pc # "blocked"

\* ------------------------------------------------------------- the dispatch after a reorder
\* column 1 holds three cards; connections 1 and 2 are registered on board 1
InitDispatch == Started(ReorderStore, {1, 2})

NextDispatch ==
    \/ \E p \in Procs : Receive(p, Reorder("u1", 1, <<3, 1, 2>>))
    \/ \E p \in Procs : reorderCards(p)
    \/ background
    \/ \E c \in Conns : peerStalls(c)

\* the handlers and the goroutines they start are scheduled fairly
SpecDispatch ==
    /\ InitDispatch
    /\ [][NextDispatch]_vars
    /\ WF_vars(\E p \in Procs : reorderCards(p))
    /\ WF_vars(background)

\* C14: once the transaction of a reorderCards request has committed, its
\* BOARD_STATE_UPDATED event is eventually written to every connection that is
\* registered on the board and whose peer reads; the request itself has returned
\* by then without waiting for the dispatch
C14_ReorderEventDelivered ==
    /\ \A i \in 1..MaxReqs :
          (i \in Range(commits)) ~>
              (\A c \in Conns :
                  (c \in Listeners(1) /\ ~conn[c].stalled) => Written(c, i) >= 1)
    /\ [](\A p \in Procs :
            (req[p].op = "reorderCards" /\ req[p].id \in Range(commits)) =>
                req[p].pc = "done")

\* ------------------------------------------------------------- moving cards
\* column 1 holds cards 1, 2, 3 and column 2 is empty; card 4 does not exist
InitMove == Started(ReorderStore, {})

\* the lists submitted: one repeats an id, one names a missing card, one swaps
\* two cards, one rotates the three cards
Submitted == {<<1, 1>>, <<4, 2>>, <<2, 1>>, <<3, 1, 2>>}

NextMove ==
    \/ \E p \in Procs, c \in {1, 2}, o \in Submitted : Receive(p, Reorder("u1", c, o))
    \/ \E p \in Procs : reorderCards(p)
    \/ background

SpecMove == InitMove /\ [][NextMove]_vars

\* C15: after a successful reorderCards(T, L), as long as no later commit has
\* changed the store, every existing card L[i] has position i (counted from 0)
\* and column T
C15_ReorderPostcondition ==
    \A p \in Procs :
        (/\ req[p].op = "reorderCards" /\ req[p].pc = "done"
         /\ req[p].resp = "reordered"
         /\ Last(commits) = req[p].id) =>
            \A i \in DOMAIN req[p].order :
                \A x \in CardRows(db, req[p].order[i]) :
                    x.pos = i - 1 /\ x.col = req[p].col

\* the last index at which list L names card k
LastIndex(L, k) == Max({i \in DOMAIN L : L[i] = k})

\* the store d with every card listed in L in column T, at the position of the
\* last index at which L names it
Reordered(d, L, T) ==
    [d EXCEPT !.cards =
        {IF x.id \in Range(L)
            THEN [x EXCEPT !.pos = LastIndex(L, x.id) - 1, !.col = T]
            ELSE x : x \in d.cards}]

\* C16: reorderCards is all-or-nothing. A step leaves the store as it is, and
\* then every reorderCards that returns at it reports an error (or had nothing
\* to change); or it is the commit of one reorderCards, which returns success
\* and applies all of its updates at once. No state of the store has only a
\* prefix of the updates of a request
C16_ReorderAllOrNothing ==
    [][\/ /\ db' = db
          /\ \A p \in Procs :
                (req[p].op = "reorderCards" /\ req[p].pc # "done" /\ req'[p].pc = "done")
                    => \/ req'[p].resp = "error"
                       \/ /\ req'[p].resp = "reordered"
                          /\ db = Reordered(db, req[p].order, req[p].col)
       \/ \E p \in Procs :
             /\ req[p].op = "reorderCards" /\ req[p].pc = "commit"
             /\ req'[p].pc = "done" /\ req'[p].resp = "reordered"
             /\ db' = Reordered(db, req[p].order, req[p].col)]_vars

\* a request to rotate the three cards failed and the column is as it was,
\* while another request moved a card
C16_Witness ==
    \E p, q \in Procs :
        /\ req[p].pc = "done" /\ req[p].resp = "error" /\ req[p].order = <<3, 1, 2>>
        /\ req[q].pc = "done" /\ req[q].resp = "reordered" /\ req[q].order = <<2, 1>>
        /\ req[q].col = 2
        /\ db = Reordered(ReorderStore, <<2, 1>>, 2)

\* ------------------------------------------------------------- columns
\* board 1 is public and owned by u1; its columns 1, 2, 3 stand at positions
\* 0, 1, 2; column 1 holds card 1; connection 1 listens on board 1
ColumnsStore ==
    [EmptyStore EXCEPT
        !.boards = {[Private1 EXCEPT !.isPublic = TRUE]},
        !.columns = {Column(1, 1, 0), Column(2, 1, 1), Column(3, 1, 2)},
        !.cards = {Card(1, 1, 0)}]

InitColumns == Started(ColumnsStore, {1})

Boards(d) == {x.id : x \in d.boards}

NextColumns ==
    \/ \E p \in Procs, t \in {"", "Suporte"} : Receive(p, NewBoard("u2", t, FALSE))
    \/ \E p \in Procs, b \in Boards(db) : Receive(p, NewColumn("u1", b))
    \/ \E p \in Procs, c \in 1..serial.col : Receive(p, DropColumn("u1", c))
    \/ \E p \in Procs, b \in Boards(db) : Receive(p, ListColumns("u1", b))
    \/ \E p \in Procs : createBoard(p)
    \/ \E p \in Procs : createColumn(p)
    \/ \E p \in Procs : deleteColumn(p)
    \/ \E p \in Procs : getColumns(p)
    \/ \E p \in Procs : Broadcast(p)

SpecColumns == InitColumns /\ [][NextColumns]_vars

\* C17: a deleteColumn that finds a card in its column is rejected: it returns
\* at once with the conflict error (or with the storage error, when the store
\* failed to answer), the store is left as it is and no event is written
C17_NonEmptyColumnKept ==
    [][\A p \in Procs :
          (/\ req[p].op = "deleteColumn" /\ req[p].pc = "start"
           /\ req'[p] # req[p]
           /\ CardsIn(db, req[p].col) # {}) =>
              /\ req'[p].pc = "done"
              /\ req'[p].resp \in {"conflict", "error"}
              /\ db' = db
              /\ commits' = commits
              /\ sent' = sent]_vars

\* the deletion of column 1, which holds card 1, was rejected as a conflict
C17_Witness ==
    \E p \in Procs :
        /\ req[p].op = "deleteColumn" /\ req[p].pc = "done"
        /\ req[p].resp = "conflict"
        /\ CardsIn(db, req[p].col) # {}
        /\ ColumnRows(db, req[p].col) # {}
        /\ EventsOf(req[p].id) = {}

\* ------------------------------------------------------------- columns, one request at a time
NextColumnsSeq ==
    \/ \E p \in Procs : Alone(p) /\ Receive(p, NewBoard("u2", "Suporte", FALSE))
    \/ \E p \in Procs, b \in Boards(db) : Alone(p) /\ Receive(p, NewColumn("u1", b))
    \/ \E p \in Procs, c \in 1..serial.col : Alone(p) /\ Receive(p, DropColumn("u1", c))
    \/ \E p \in Procs : createBoard(p)
    \/ \E p \in Procs : createColumn(p)
    \/ \E p \in Procs : deleteColumn(p)
    \/ \E p \in Procs : Broadcast(p)

SpecColumnsSeq == InitColumns /\ [][NextColumnsSeq]_vars

\* the columns of board b stand at positions 0 .. count-1, one at each
ColumnsDense(d, b) ==
    /\ {x.position : x \in ColumnsOf(d, b)} = 0..(Cardinality(ColumnsOf(d, b)) - 1)
    /\ \A x, y \in ColumnsOf(d, b) : x.position = y.position => x = y

\* columns x and y of store d stand in store e in the order they have in d
SameOrder(d, e, x, y) ==
    \A v \in ColumnRows(e, x.id), w \in ColumnRows(e, y.id) :
        (x.position < y.position) <=> (v.position < w.position)

\* C18: a deleteColumn that succeeds on a board whose n columns stand at
\* positions 0 .. n-1 removes its column only and leaves the other n-1 columns
\* at positions 0 .. n-2, in the order they had
C18_DeleteColumnShifts ==
    [][\A p \in Procs :
          (/\ req[p].op = "deleteColumn" /\ req[p].pc = "commit"
           /\ req'[p].resp = "deleted"
           /\ ColumnsDense(db, req[p].board)) =>
              LET b == req[p].board
                  rest == {x \in ColumnsOf(db, b) : x.id # req[p].col}
              IN /\ {x.id : x \in ColumnsOf(db', b)} = {x.id : x \in rest}
                 /\ Cardinality(ColumnsOf(db', b)) = Cardinality(ColumnsOf(db, b)) - 1
                 /\ ColumnsDense(db', b)
                 /\ \A x, y \in rest : SameOrder(db, db', x, y)]_vars

\* column 2, the middle one of board 1, was deleted: column 3 came down to
\* position 1
C18_Witness ==
    \E p \in Procs :
        /\ req[p].op = "deleteColumn" /\ req[p].resp = "deleted" /\ req[p].col = 2
        /\ ColumnsOf(db, 1) = {Column(1, 1, 0), Column(3, 1, 1)}

\* C19: in every committed state, under any interleaving of createBoard,
\* createColumn, deleteColumn and getColumns, the columns of every board stand
\* at positions 0 .. count-1, one at each
C19_ColumnPositionsDense ==
    \A b \in Boards(db) : ColumnsDense(db, b)

\* C20: a createBoard by user U that succeeds adds exactly one board row, owned
\* by U, and exactly three columns of that board, at positions 0, 1, 2 with
\* the titles 'A Fazer', 'Em Andamento', 'Concluído', and changes nothing else;
\* a createBoard that fails at any step leaves the store as it was
C20_CreateBoardSeeds ==
    [][\A p \in Procs :
          (req[p].op = "createBoard" /\ req[p].pc # "done" /\ req'[p].pc = "done") =>
              IF req'[p].resp = "created"
              THEN LET b == req[p].board IN
                   /\ b \notin Boards(db)
                   /\ db'.boards = db.boards \cup
                          {[id |-> b, owner |-> req[p].user, isPublic |-> req[p].public]}
                   /\ Cardinality(ColumnsOf(db', b)) = 3
                   /\ {<<x.position, x.title>> : x \in ColumnsOf(db', b)} =
                          {<<0, "A Fazer">>, <<1, "Em Andamento">>, <<2, "Concluído">>}
                   /\ db'.columns \ ColumnsOf(db', b) = db.columns
                   /\ db'.cards = db.cards
              ELSE db' = db]_vars

\* u2 created board 2, which has its three columns, after an earlier
\* createBoard had failed
C20_Witness ==
    \E p, q \in Procs :
        /\ req[p].op = "createBoard" /\ req[p].pc = "done" /\ req[p].resp = "created"
        /\ req[q].op = "createBoard" /\ req[q].pc = "done" /\ req[q].resp = "error"
        /\ \E x \in db.boards : x.id = req[p].board /\ x.owner = "u2"
        /\ Cardinality(ColumnsOf(db, req[p].board)) = 3
        /\ Cardinality(db.boards) = 2

\* ------------------------------------------------------------- invitations
\* board 1, private, owned by u1, with member u2
MembersStore ==
    [EmptyStore EXCEPT !.boards = {Private1},
                       !.memberships = {[board |-> 1, user |-> "u2", n |-> 1]}]

\* the same, after member u2 invited u3: invitation 1 is pending
InvitedStore ==
    [MembersStore EXCEPT
        !.invitations = {[id |-> 1, board |-> 1, inviter |-> "u2", invitee |-> "u3",
                          status |-> "pending"]},
        !.notifications = <<Notification("u3", "board_invitation", 1, 0, 1)>>]

InitInvite == \E d \in {MembersStore, InvitedStore} : Started(d, {})

NextInvite ==
    \/ \E p \in Procs, u \in {"u1", "u2"}, v \in Users : Receive(p, Invite(u, 1, v))
    \/ \E p \in Procs, u \in {"u2", "u3"}, i \in 1..serial.inv, a \in BOOLEAN, n \in {0, 1} :
          Receive(p, Respond(u, i, a, n))
    \/ \E p \in Procs : inviteUserToBoard(p)
    \/ \E p \in Procs : respondToInvitation(p)

SpecInvite == InitInvite /\ [][NextInvite]_vars

\* C6: in every committed state, also with inviteUserToBoard requests for the
\* same board and invitee in flight together, a (board, invitee) pair has at
\* most one invitation with status pending
C6_OnePendingInvitation ==
    \A u \in Users : Cardinality(PendingRows(db, 1, u)) <= 1

\* the invitee is the owner of the board, a member of it, or has a pending
\* invitation to it
Excluded(d, b, u) ==
    \/ \E x \in d.boards : x.id = b /\ x.owner = u
    \/ \E m \in d.memberships : m.board = b /\ m.user = u
    \/ \E x \in d.invitations : x.board = b /\ x.invitee = u /\ x.status = "pending"

\* C7: inviteUserToBoard for an invitee who is the owner, a member or already
\* has a pending invitation returns the status invited_or_exists at once: it
\* inserts no invitation and no notification and leaves the store unchanged
C7_InviteIdempotent ==
    [][\A p \in Procs :
          (/\ req[p].op = "inviteUserToBoard"
           /\ req[p].pc = "start"
           /\ req'[p] # req[p]
           /\ Excluded(db, req[p].board, req[p].target))
          => (/\ db' = db
              /\ serial' = serial
              /\ commits' = commits
              /\ req'[p].pc = "done"
              /\ req'[p].resp = "invited_or_exists")]_vars

\* one invitation for the invitee with a pending invitation and one for a
\* member were both answered invited_or_exists
C7_Witness ==
    \E p, q \in Procs :
        /\ req[p].op = "inviteUserToBoard" /\ req[q].op = "inviteUserToBoard"
        /\ req[p].pc = "done" /\ req[q].pc = "done"
        /\ req[p].resp = "invited_or_exists" /\ req[q].resp = "invited_or_exists"
        /\ req[p].target = "u3" /\ PendingRows(db, 1, "u3") # {}
        /\ req[q].target = "u2"

\* the invitation_accepted notifications of board b addressed to u
Accepted(d, b, u) ==
    {n \in DOMAIN d.notifications :
        /\ d.notifications[n].type = "invitation_accepted"
        /\ d.notifications[n].user = u
        /\ d.notifications[n].board = b}

\* C8: when the invitee's respondToInvitation with accept = true returns
\* responded, the invitation has status accepted, the board has exactly one
\* membership row of the invitee, also when the call is made a second time,
\* and the board's owner has an invitation_accepted notification
C8_AcceptOnce ==
    [][\A p \in Procs :
          (/\ req[p].op = "respondToInvitation"
           /\ req[p].accept
           /\ req[p].pc = "commit"
           /\ req'[p].pc = "done"
           /\ req'[p].resp = "responded")
          => (/\ \E x \in InvRows(db', req[p].inv) :
                    x.invitee = req[p].user /\ x.status = "accepted"
              /\ Cardinality(MemberRows(db', req[p].board, req[p].user)) = 1
              /\ \E x \in BoardRows(db', req[p].board) :
                    Accepted(db', x.id, x.owner) # {})]_vars

\* invitation 1 was accepted by its invitee twice
C8_Witness ==
    \E p, q \in Procs :
        /\ p # q
        /\ req[p].op = "respondToInvitation" /\ req[q].op = "respondToInvitation"
        /\ req[p].accept /\ req[q].accept
        /\ req[p].inv = 1 /\ req[q].inv = 1
        /\ req[p].pc = "done" /\ req[q].pc = "done"
        /\ req[p].resp = "responded" /\ req[q].resp = "responded"

\* C9: respondToInvitation by a user who is not the invitation's invitee is
\* answered not found (or fails on a storage error) and commits nothing: the
\* invitation, the memberships and the notifications stay as they are
C9_OnlyInvitee ==
    \A p \in Procs :
        (/\ req[p].op = "respondToInvitation"
         /\ \A x \in InvRows(db, req[p].inv) : x.invitee # req[p].user)
        => (/\ req[p].id \notin Range(commits)
            /\ req[p].pc = "done" => req[p].resp \in {"not_found", "error"})

\* member u2 answered the invitation addressed to u3 and was told not found
C9_Witness ==
    \E p \in Procs :
        /\ req[p].op = "respondToInvitation"
        /\ req[p].user = "u2" /\ req[p].accept
        /\ InvRows(db, req[p].inv) # {}
        /\ req[p].pc = "done" /\ req[p].resp = "not_found"

\* C10: once an acceptance is answered responded, the user who sent the
\* invitation has an invitation_accepted notification of the board, whether
\* or not that user owns the board
C10_NotifyInviter ==
    \A p \in Procs :
        (/\ req[p].op = "respondToInvitation"
         /\ req[p].accept
         /\ req[p].pc = "done"
         /\ req[p].resp = "responded")
        => \A x \in InvRows(db, req[p].inv) : Accepted(db, x.board, x.inviter) # {}

\* ------------------------------------------------------------- notifications
\* board 1 with a column and a card in it, before and after member u2 invited u3
NotifyStores ==
    {[d EXCEPT !.columns = {Column(1, 1, 0)}, !.cards = {Card(1, 1, 0)}] :
        d \in {MembersStore, InvitedStore}}

InitNotify == \E d \in NotifyStores : Started(d, {})

NextNotify ==
    \/ \E p \in Procs : Receive(p, NewCard("u1", 1, "u2"))
    \/ \E p \in Procs : Receive(p, EditCard("u1", 1, "u3"))
    \/ \E p \in Procs : Receive(p, Invite("u1", 1, "u3"))
    \/ \E p \in Procs, a \in BOOLEAN, n \in {0, 1} : Receive(p, Respond("u3", 1, a, n))
    \/ \E p \in Procs : createCard(p)
    \/ \E p \in Procs : updateCard(p)
    \/ \E p \in Procs : inviteUserToBoard(p)
    \/ \E p \in Procs : respondToInvitation(p)

SpecNotify == InitNotify /\ [][NextNotify]_vars

\* the workflows that insert notifications
Workflows == {"createCard", "updateCard", "inviteUserToBoard", "respondToInvitation"}

\* every board_invitation notification of store d names an invitation row of d,
\* of the same board and for the user notified
Referenced(d) ==
    \A i \in DOMAIN d.notifications :
        LET n == d.notifications[i] IN
        n.type = "board_invitation" =>
            \E x \in InvRows(d, n.inv) : x.board = n.board /\ x.invitee = n.user

\* C21: the notifications of the store change only in the step in which the
\* transaction of a workflow commits; a board_invitation notification is in the
\* store only together with its invitation row; a workflow that ends with an
\* error leaves the store, notifications included, as it was
C21_NotificationsCommitted ==
    [][/\ Referenced(db')
       /\ db'.notifications # db.notifications =>
             \E p \in Procs :
                 /\ req[p].op \in Workflows /\ req[p].pc = "commit"
                 /\ commits' = Append(commits, req[p].id)
       /\ \A p \in Procs :
             (/\ req[p].op \in Workflows
              /\ req[p].pc # "done" /\ req'[p].pc = "done"
              /\ req'[p].resp = "error") => db' = db]_vars

\* an invitation of u3 was committed with its notification after a createCard
\* that had buffered a notification failed to commit
C21_Witness ==
    \E p, q \in Procs :
        /\ req[p].op = "createCard" /\ req[p].pc = "done" /\ req[p].resp = "error"
        /\ req[q].op = "inviteUserToBoard" /\ req[q].pc = "done" /\ req[q].resp = "invited"
        /\ Len(db.notifications) = 1
        /\ db.notifications[1].type = "board_invitation"
        /\ db.cards = {Card(1, 1, 0)}

\* C22: a workflow whose notification could not be inserted does not commit:
\* the commit of a transaction in which a statement failed changes nothing and
\* the request answers with an error; inviteUserToBoard, which checks the
\* insert itself, never reaches its commit with a failed statement
C22_NotificationFailureAborts ==
    [][\A p \in Procs :
          /\ (/\ req[p].op \in Workflows
              /\ req[p].pc = "commit" /\ req[p].aborted
              /\ req'[p] # req[p]) =>
                 /\ db' = db
                 /\ commits' = commits
                 /\ req'[p].pc = "done" /\ req'[p].resp = "error"
          /\ req'[p].op = "inviteUserToBoard" => ~req'[p].aborted]_vars

\* the notification of a createCard failed after its card was inserted in the
\* transaction, which is now aborted and about to be committed; an accepting
\* respondToInvitation has ended with an error and u3 is no member
C22_Witness ==
    \E p, q \in Procs :
        /\ req[p].op = "createCard" /\ req[p].pc = "commit" /\ req[p].aborted
        /\ Len(req[p].tx) = 1
        /\ req[q].op = "respondToInvitation" /\ req[q].pc = "done"
        /\ req[q].accept /\ req[q].resp = "error"
        /\ MemberRows(db, 1, "u3") = {}

\* ------------------------------------------------------------- owners
\* board 1 of u1 with member u2, as it is, with u3 invited, and after u3 accepted
OwnerStores ==
    {MembersStore, InvitedStore,
     [InvitedStore EXCEPT
        !.invitations = {[x EXCEPT !.status = "accepted"] : x \in @},
        !.memberships = @ \cup {[board |-> 1, user |-> "u3", n |-> 1]}]}

InitOwner == \E d \in OwnerStores : Started(d, {})

\* board 2 is the one that createBoard of u2 would create
NextOwner ==
    \/ \E p \in Procs : Receive(p, NewBoard("u2", "t", FALSE))
    \/ \E p \in Procs, x \in {<<1, "u1">>, <<1, "u3">>, <<2, "u2">>} :
          Receive(p, Invite("u3", x[1], x[2]))
    \/ \E p \in Procs, u \in {"u1", "u2", "u3"}, i \in 1..serial.inv, a \in BOOLEAN :
          Receive(p, Respond(u, i, a, 0))
    \/ \E p \in Procs, u \in {"u1", "u3"} : Receive(p, Leave(u, 1))
    \/ \E p \in Procs, x \in {<<"u1", "u1">>, <<"u1", "u3">>, <<"u2", "u3">>} :
          Receive(p, RemoveMember(x[1], 1, x[2]))
    \/ \E p \in Procs : createBoard(p)
    \/ \E p \in Procs : inviteUserToBoard(p)
    \/ \E p \in Procs : respondToInvitation(p)
    \/ \E p \in Procs : leaveBoard(p)
    \/ \E p \in Procs : removeBoardMember(p)

SpecOwner == InitOwner /\ [][NextOwner]_vars

\* C23: in every reachable state, whatever createBoard, inviteUserToBoard,
\* respondToInvitation, leaveBoard and removeBoardMember requests were served
\* or are in flight, no board has a pending invitation for its owner and no
\* board has a membership row of its owner
C23_OwnerNeverInvitedNorMember ==
    \A x \in db.boards :
        /\ PendingRows(db, x.id, x.owner) = {}
        /\ MemberRows(db, x.id, x.owner) = {}

\* u2 created board 2 after an invitation of u1, the owner of board 1, to
\* board 1 was answered without a row being written
C23_Witness ==
    \E p, q \in Procs :
        /\ req[p].op = "inviteUserToBoard" /\ req[p].pc = "done"
        /\ req[p].board = 1 /\ req[p].target = ownerID(db, 1)
        /\ req[p].resp = "invited_or_exists"
        /\ req[q].op = "createBoard" /\ req[q].pc = "done" /\ req[q].resp = "created"
        /\ ownerID(db, 2) = "u2"

\* ------------------------------------------------------------- permission
\* no board, or board 1 of u1 or u2, public or private, with any of u2 and u3
\* as members
PermissionStores ==
    {EmptyStore} \cup
    {[EmptyStore EXCEPT
        !.boards = {[id |-> 1, owner |-> o, isPublic |-> pub]},
        !.memberships = {[board |-> 1, user |-> u, n |-> 1] : u \in M}] :
        o \in {"u1", "u2"}, pub \in BOOLEAN, M \in SUBSET {"u2", "u3"}}

InitPermission == \E d \in PermissionStores : Started(d, {})

NextPermission ==
    \/ \E p \in Procs, u \in Users, b \in {1, 2} : Receive(p, Check(u, b))
    \/ \E p \in Procs : resolve(p)

SpecPermission == InitPermission /\ [][NextPermission]_vars

\* C24: checkBoardPermission grants exactly when the board has a row and the
\* board is public, or the user is its owner, or there is a membership row of
\* the board and the user; a missing board is denied and a public board is
\* granted whoever asks
C24_PermissionResolution ==
    \A p \in Procs :
        (req[p].op = "checkBoardPermission" /\ req[p].pc = "done") =>
            LET u == req[p].user
                b == req[p].board
                granted == req[p].resp = "granted" IN
            /\ req[p].resp \in {"granted", "denied"}
            /\ granted <=>
                  \E x \in db.boards :
                     /\ x.id = b
                     /\ \/ x.isPublic
                        \/ x.owner = u
                        \/ \E m \in db.memberships : m.board = b /\ m.user = u
            /\ (\A x \in db.boards : x.id # b) => ~granted
            /\ (\E x \in db.boards : x.id = b /\ x.isPublic) => granted

\* u3, neither owner nor member, was granted the public board 1, and was
\* denied board 2, which does not exist
C24_Witness ==
    \E p, q \in Procs :
        /\ req[p].op = "checkBoardPermission" /\ req[p].pc = "done"
        /\ req[p].user = "u3" /\ req[p].board = 1 /\ req[p].resp = "granted"
        /\ \E x \in db.boards : x.id = 1 /\ x.isPublic /\ x.owner # "u3"
        /\ MemberRows(db, 1, "u3") = {}
        /\ req[q].op = "checkBoardPermission" /\ req[q].pc = "done"
        /\ req[q].user = "u3" /\ req[q].board = 2 /\ req[q].resp = "denied"

\* ------------------------------------------------------------- boards
\* board 1 of u1 with member u2 and u3 invited, and board 2 of u2 with member
\* u1, each with a column and a card
BoardsStore ==
    [InvitedStore EXCEPT
        !.boards = @ \cup {[id |-> 2, owner |-> "u2", isPublic |-> TRUE]},
        !.memberships = @ \cup {[board |-> 2, user |-> "u1", n |-> 1]},
        !.columns = {Column(1, 1, 0), Column(2, 2, 0)},
        !.cards = {Card(1, 1, 0), Card(2, 2, 0)}]

InitBoards == Started(BoardsStore, {})

NextBoards ==
    \/ \E p \in Procs, u \in Users, b \in 1..3 : Receive(p, DropBoard(u, b))
    \/ \E p \in Procs : deleteBoard(p)

SpecBoards == InitBoards /\ [][NextBoards]_vars

\* the rows of board b in store d
RowsOf(d, b) ==
    [boards |-> BoardRows(d, b),
     columns |-> ColumnsOf(d, b),
     cards |-> {x \in d.cards : getColumnBoard(d, x.col) = b},
     memberships |-> {x \in d.memberships : x.board = b},
     invitations |-> {x \in d.invitations : x.board = b}]

\* C25: a deleteBoard whose caller is not the owner of the board is answered
\* with a rejection and no step of it changes the board, its columns, cards,
\* memberships or invitations; a board leaves the store only in a step of a
\* deleteBoard request of its owner
C25_OnlyOwnerDeletesBoard ==
    [][/\ \A p \in Procs :
             (/\ req[p].op = "deleteBoard" /\ req[p].pc \in {"start", "exec"}
              /\ req'[p] # req[p]
              /\ BoardRows(db, req[p].board) # {}
              /\ ownerID(db, req[p].board) # req[p].user) =>
                 /\ req'[p].pc = "done" /\ req'[p].resp = "forbidden"
                 /\ RowsOf(db', req[p].board) = RowsOf(db, req[p].board)
                 /\ db' = db
       /\ \A x \in db.boards \ db'.boards :
             \E p \in Procs :
                 /\ req[p].op = "deleteBoard" /\ req[p].pc = "exec"
                 /\ req[p].board = x.id /\ req[p].user = x.owner
                 /\ req'[p].pc = "done" /\ req'[p].resp = "no_content"]_vars

\* member u1 of board 2 was refused its deletion, after which owner u2 deleted
\* it; board 1 is as it was
C25_Witness ==
    \E p, q \in Procs :
        /\ req[p].op = "deleteBoard" /\ req[p].pc = "done"
        /\ req[p].user = "u1" /\ req[p].board = 2 /\ req[p].resp = "forbidden"
        /\ req[q].op = "deleteBoard" /\ req[q].pc = "done"
        /\ req[q].user = "u2" /\ req[q].board = 2 /\ req[q].resp = "no_content"
        /\ req[p].id < req[q].id
        /\ BoardRows(db, 2) = {}
        /\ RowsOf(db, 1) = RowsOf(BoardsStore, 1)

\* ------------------------------------------------------------- members
InitMembers == Started(BoardsStore, {})

NextMembers ==
    \/ \E p \in Procs, u \in {"u1", "u2"}, b \in {1, 2}, v \in Users :
          Receive(p, RemoveMember(u, b, v))
    \/ \E p \in Procs : removeBoardMember(p)

SpecMembers == InitMembers /\ [][NextMembers]_vars

\* C26: a removeBoardMember whose caller is not the owner of the board, or
\* whose target is the owner, is rejected; a request that is rejected deletes
\* no membership row; one that is accepted was sent by the owner for another
\* user, and its step removes the membership rows of (board, target) and
\* changes nothing else
C26_RemoveMemberGuarded ==
    [][\A p \in Procs :
          LET r == req[p]
              owner == ownerID(db, r.board) IN
          (r.op = "removeBoardMember" /\ r.pc \in {"start", "exec"} /\ req'[p] # r) =>
             /\ (r.pc = "start" /\ BoardRows(db, r.board) # {} /\ owner # r.user) =>
                   req'[p].pc = "done" /\ req'[p].resp = "forbidden"
             /\ (r.pc = "start" /\ owner = r.user /\ owner = r.target) =>
                   req'[p].pc = "done" /\ req'[p].resp = "bad_request"
             /\ req'[p].resp # "no_content" => db' = db
             /\ req'[p].resp = "no_content" =>
                   /\ owner = r.user /\ owner # r.target
                   /\ db' = [db EXCEPT !.memberships =
                                 {m \in @ : ~(m.board = r.board /\ m.user = r.target)}]]_vars

\* owner u1 removed member u2 from board 1, and u2's own request to remove a
\* member of board 1 was refused; u1 is still a member of board 2
C26_Witness ==
    \E p, q \in Procs :
        /\ req[p].op = "removeBoardMember" /\ req[p].pc = "done"
        /\ req[p].user = "u1" /\ req[p].board = 1 /\ req[p].target = "u2"
        /\ req[p].resp = "no_content"
        /\ req[q].op = "removeBoardMember" /\ req[q].pc = "done"
        /\ req[q].user = "u2" /\ req[q].board = 1 /\ req[q].target = "u2"
        /\ req[q].resp = "forbidden"
        /\ MemberRows(db, 1, "u2") = {}
        /\ MemberRows(db, 2, "u1") # {}

\* ------------------------------------------------------------- missing ids
\* an id that no row has and that no sequence of the store reaches
Missing == 9

\* board 1: column 1 holds card 1, column 2 is empty; connection 1 listens
InitMissing == Started(EventsStore, {1})

NextMissing ==
    \/ \E p \in Procs, k \in {1, Missing} : Receive(p, DropCard("u1", k))
    \/ \E p \in Procs : Receive(p, EditCard("u1", Missing, "u2"))
    \/ \E p \in Procs : Receive(p, DropColumn("u1", Missing))
    \/ \E p \in Procs, a \in BOOLEAN : Receive(p, Respond("u1", Missing, a, 0))
    \/ \E p \in Procs : deleteCard(p)
    \/ \E p \in Procs : updateCard(p)
    \/ \E p \in Procs : deleteColumn(p)
    \/ \E p \in Procs : respondToInvitation(p)
    \/ \E p \in Procs : Broadcast(p)

SpecMissing == InitMissing /\ [][NextMissing]_vars

\* the request names a card, a column or an invitation that has no row
NamesMissing(r) ==
    \/ r.op \in {"deleteCard", "updateCard"} /\ r.card = Missing
    \/ r.op = "deleteColumn" /\ r.col = Missing
    \/ r.op = "respondToInvitation" /\ r.inv = Missing

\* C27: a deleteCard, updateCard, deleteColumn or respondToInvitation request
\* that names an id without a row changes nothing in the store, starts no
\* broadcast, and is answered with an error
C27_MissingIdRejected ==
    [][\A p \in Procs :
          (NamesMissing(req[p]) /\ req[p].pc \notin {"idle", "done"} /\ req'[p] # req[p]) =>
             /\ db' = db
             /\ req'[p].pc # "bcast"
             /\ req'[p].pc = "done" => req'[p].resp \in {"not_found", "error"}]_vars

\* ------------------------------------------------------------- validation
\* board 1 with the empty columns 1 and 2; connection 1 listens
InitCreate == Started(CardsStore, {1})

\* the title of the request body: missing (the zero value "") or given
Titles == {"", "t"}

NextCreate ==
    \/ \E p \in Procs, t \in Titles : Receive(p, NewBoard("u1", t, FALSE))
    \/ \E p \in Procs, t \in Titles, b \in {0, 1} :
          Receive(p, [NewColumn("u1", b) EXCEPT !.title = t])
    \/ \E p \in Procs, t \in Titles :
          Receive(p, [NewCard("u1", 1, "u2") EXCEPT !.title = t])
    \/ \E p \in Procs : createBoard(p)
    \/ \E p \in Procs : createColumn(p)
    \/ \E p \in Procs : createCard(p)
    \/ \E p \in Procs : Broadcast(p)

SpecCreate == InitCreate /\ [][NextCreate]_vars

\* a create request without a title, or a createColumn without board_id
Incomplete(r) ==
    /\ r.op \in {"createBoard", "createColumn", "createCard"}
    /\ r.title = "" \/ (r.op = "createColumn" /\ r.board = 0)

\* C28: a createBoard, createColumn or createCard request with an empty title,
\* or a createColumn without board_id, is rejected before any write: no step
\* of it changes the store or puts a statement in a transaction, it starts no
\* broadcast, and it is answered as a bad request
C28_IncompleteCreateRejected ==
    [][\A p \in Procs :
          (Incomplete(req[p]) /\ req[p].pc \notin {"idle", "done"} /\ req'[p] # req[p]) =>
             /\ db' = db
             /\ req'[p].tx = <<>>
             /\ req'[p].pc # "bcast"
             /\ req'[p].pc = "done" => req'[p].resp = "bad_request"]_vars

\* ------------------------------------------------------------- column locks
\* the request is between columnLock.Lock() and the end of its transaction
InProgress(p) == req[p].op = "reorderCards" /\ req[p].pc = "commit"

\* the request has looked up its lock and has not returned
HasLock(p) == req[p].op = "reorderCards" /\ req[p].pc \in {"lock", "commit"}

\* C29: at most one reorderCards request of a column_id is between the
\* acquisition of the column's lock and the end of its transaction, and it is
\* the holder of that lock; the requests of one column_id got the same lock
\* from getColumnLock, the one the registry keeps for the column, however
\* their lookups were interleaved
C29_ColumnLockExclusive ==
    /\ \A p, q \in Procs :
          (p # q /\ InProgress(p) /\ InProgress(q)) => req[p].col # req[q].col
    /\ \A p \in Procs : InProgress(p) => held[req[p].lock] = p
    /\ \A p \in Procs :
          HasLock(p) => req[p].col \in DOMAIN locks /\ req[p].lock = locks[req[p].col]
    /\ \A p, q \in Procs :
          (HasLock(p) /\ HasLock(q) /\ req[p].col = req[q].col) => req[p].lock = req[q].lock

\* two requests of column 1: one holds the lock with its transaction open, the
\* other one, whose lookup returned the same lock, waits for it
C29_Witness ==
    \E p, q \in Procs :
        /\ p # q
        /\ InProgress(p) /\ req[p].col = 1
        /\ req[q].op = "reorderCards" /\ req[q].pc = "lock" /\ req[q].col = 1
        /\ req[q].lock = req[p].lock
        /\ held[req[p].lock] = p

\* the request writes the position of a card that the store has in column c,
\* or puts cards into column c
Touches(r, c) ==
    \/ r.col = c
    \/ \E i \in DOMAIN r.order : \E x \in CardsIn(db, c) : x.id = r.order[i]

\* C30: of the reorderCards requests that write positions of cards of a column
\* S, one that moves a card out of S into another column included, at most one
\* is between the acquisition of its lock and the end of its transaction
C30_MoveSerializedWithSource ==
    \A S \in {x.id : x \in db.columns} :
        \A p, q \in Procs :
            (p # q /\ InProgress(p) /\ InProgress(q)) =>
                ~(Touches(req[p], S) /\ req[q].col = S)

\* ------------------------------------------------------------- waiting for a column
\* column 1 holds cards 1, 2, 3; requests come for columns 1 and 2
InitQueue == Started(ReorderStore, {})

NextQueue ==
    \/ \E p \in Procs, c \in {1, 2} : Receive(p, Reorder("u1", c, <<2, 1>>))
    \/ \E p \in Procs : reorderCards(p)
    \/ background

\* every handler that can take a step is scheduled; a storage step terminates
SpecQueue ==
    /\ InitQueue
    /\ [][NextQueue]_vars
    /\ \A p \in Procs : WF_vars(reorderCards(p))
    /\ WF_vars(background)

C32_CreateCardPosition ==
    [][\A p \in Procs :
          (req[p].op = "createCard" /\ req[p].pc = "tx" /\ req'[p].pc = "commit") =>
             LET c == req[p].col
                 row == req'[p].tx[1].row IN
             /\ row.col = c
             /\ row.pos = IF CardsIn(db, c) = {} THEN 0
                           ELSE Max({x.pos : x \in CardsIn(db, c)}) + 1]_vars

\* C33: createCard requests that run concurrently on one column never commit
\* two cards with the same position in that column
C33_ConcurrentCreateDistinct ==
    \A c \in {x.id : x \in db.columns} :
        \A x, y \in CardsIn(db, c) : x.pos = y.pos => x = y

\* ------------------------------------------------------------- deleting a column in use
\* board 1: column 1 holds card 1, column 2 is empty
InitRace == Started(EventsStore, {})

NextRace ==
    \/ \E p \in Procs : Receive(p, NewCard("u1", 2, NoName))
    \/ \E p \in Procs : Receive(p, Reorder("u1", 2, <<1>>))
    \/ \E p \in Procs : Receive(p, DropColumn("u1", 2))
    \/ \E p \in Procs : createCard(p)
    \/ \E p \in Procs : reorderCards(p)
    \/ \E p \in Procs : deleteColumn(p)
    \/ background

SpecRace == InitRace /\ [][NextRace]_vars

\* C34: a column leaves the store only when no card is in it at that moment,
\* also when a createCard on the column, or a reorderCards that moves a card
\* into it, runs between the count of deleteColumn and its commit
C34_ColumnInUseKept ==
    [][\A x \in db.columns \ db'.columns :
          (\A y \in db'.columns : y.id # x.id) => CardsIn(db, x.id) = {}]_vars

\* ------------------------------------------------------------- answered invitations
\* C35: a respondToInvitation that finds its invitation already accepted or
\* rejected is turned away: it puts no statement in a transaction, so it
\* changes no status, inserts no membership and creates no notification
C35_OnlyPendingAnswered ==
    [][\A p \in Procs :
          (/\ req[p].op = "respondToInvitation" /\ req[p].pc = "start"
           /\ req'[p] # req[p]
           /\ \E x \in InviteeRows(db, req[p].inv, req[p].user) : x.status # "pending") =>
              /\ req'[p].pc = "done"
              /\ req'[p].resp # "responded"
              /\ req'[p].tx = <<>>]_vars

\* request q took user u out of board b: u left, or the owner removed u
Left(q, b, u) ==
    /\ req[q].pc = "done" /\ req[q].resp = "no_content" /\ req[q].board = b
    /\ \/ req[q].op = "leaveBoard" /\ req[q].user = u
       \/ req[q].op = "removeBoardMember" /\ req[q].target = u

\* C36: for a user who left a board or was removed from it, a membership row
\* of the board is written again only while an invitation of that user to
\* the board is pending: answering the invitation that was answered before
\* does not make the user a member again
C36_NoRejoinWithoutInvitation ==
    [][\A m \in db'.memberships \ db.memberships :
          (\E q \in Procs : Left(q, m.board, m.user)) =>
              PendingRows(db, m.board, m.user) # {}]_vars

\* ------------------------------------------------------------- status columns
\* board 1 is public: with its three default columns, or with a column
\* 'Solucionado' already there
StatusStores ==
    {[EmptyStore EXCEPT
        !.boards = {[id |-> 1, owner |-> "u1", isPublic |-> TRUE]},
        !.columns = cols] :
        cols \in {{Column(1, 1, 0), Column(2, 1, 1), Column(3, 1, 2)},
                  {Column(1, 1, 0), [Column(2, 1, 1) EXCEPT !.title = "Solucionado"]}}}

InitStatus == \E d \in StatusStores : Started(d, {})

NextStatus ==
    \/ \E p \in Procs, u \in Users : Receive(p, ListColumns(u, 1))
    \/ \E p \in Procs : getColumns(p)

SpecStatus == InitStatus /\ [][NextStatus]_vars

\* the columns of board b in d whose title is t, letter case aside
Titled(d, b, t) == {x \in ColumnsOf(d, b) : ToLower(x.title) = t}

\* C37: once a getColumns call on the public board has committed, and after
\* any further calls, concurrent ones included, the board has exactly one
\* column 'Solucionado' and exactly one 'Não Solucionado', each at a position
\* that no other column of the board has
C37_StatusColumnsOnce ==
    commits # <<>> =>
        \A t \in {"solucionado", "não solucionado"} :
            /\ Cardinality(Titled(db, 1, t)) = 1
            /\ \A x \in Titled(db, 1, t) :
                  \A y \in ColumnsOf(db, 1) : y.position = x.position => y = x

\* ------------------------------------------------------------- the frame of a reorder
\* C38: the commit of a reorderCards request changes nothing but the position
\* and the column of the cards its list names: every other card stays as it
\* is, no card row appears or disappears, and an id of the list that no card
\* has does not make the request fail
C38_ReorderFrame ==
    [][\A p \in Procs :
          (req[p].op = "reorderCards" /\ req[p].pc = "commit" /\ req'[p] # req[p]) =>
             /\ \A x \in db.cards : x.id \notin Range(req[p].order) => x \in db'.cards
             /\ {x.id : x \in db'.cards} = {x.id : x \in db.cards}
             /\ \A x \in db.cards : \A y \in db'.cards :
                   x.id = y.id => x.assigned = y.assigned
             /\ [db' EXCEPT !.cards = {}] = [db EXCEPT !.cards = {}]
             /\ req'[p].resp = "error" => db' = db
             /\ (commits' # commits) => req'[p].resp = "reordered"]_vars

\* the list <<4, 2>> for column 2 was applied: card 2 is second in column 2,
\* cards 1 and 3 are where they were and there is no card 4
C38_Witness ==
    \E p \in Procs :
        /\ req[p].op = "reorderCards" /\ req[p].pc = "done"
        /\ req[p].order = <<4, 2>> /\ req[p].col = 2 /\ req[p].resp = "reordered"
        /\ db.cards = {Card(1, 1, 0), Card(2, 2, 1), Card(3, 1, 2)}

\* ------------------------------------------------------------- empty connection sets
\* board 1 with card 1; two clients of u1 connect to board 1 and leave, and
\* deleteCard requests broadcast to them
InitRegistry == Started(EventsStore, {})

NextRegistry ==
    \/ \E c \in {1, 2} : wsUpgrade(c, 1, "u1")
    \/ \E c \in {1, 2} : handleWebSocket(c)
    \/ \E p \in Procs : Receive(p, DropCard("u1", 1))
    \/ \E p \in Procs : deleteCard(p)
    \/ \E p \in Procs : Broadcast(p)
    \/ fatal

SpecRegistry == InitRegistry /\ [][NextRegistry]_vars

\* no handler is between two statements of its registration or of its exit, no
\* handler has yet to notice that its connection was closed, and no broadcast
\* is inside its loop
Quiet ==
    /\ \A c \in Conns :
          \/ conn[c].pc \in {"free", "closed", "panic", "crashed"}
          \/ conn[c].pc = "reading" /\ conn[c].open
    /\ \A p \in Procs : req[p].pc # "bcast"
    /\ \A t \in bg : t.pc # "bcast"

\* C39: in every state in which no handler and no broadcast is in the middle
\* of a step, no board key of the registry maps to an empty connection set:
\* the entry of a board goes with its last connection, whether the handler
\* removed it on its exit or a broadcast removed it after a failed write
C39_NoEmptyBoardEntry ==
    Quiet => \A b \in DOMAIN clients : clients[b] # {}

\* both connections of board 1 are gone and so is the board's key: a deleteCard
\* request has returned whose event reached connection 2 and not connection 1
C39_Witness ==
    /\ Quiet
    /\ 1 \notin DOMAIN clients
    /\ conn[1].pc = "closed" /\ conn[2].pc = "closed"
    /\ \E p \in Procs :
          /\ req[p].op = "deleteCard" /\ req[p].pc = "done"
          /\ \E n \in DOMAIN sent[2] : sent[2][n].req = req[p].id
          /\ \A n \in DOMAIN sent[1] : sent[1][n].req # req[p].id

\* C40: under every interleaving of connects and disconnects on one board, a
\* connection whose handler has registered it, is in its read loop and has not
\* failed a broadcast write is a member of its board's connection set
C40_NoRegistrationLost ==
    \A c \in Conns :
        conn[c].pc = "reading" /\ conn[c].open => c \in Listeners(conn[c].board)

====
